---- MODULE Spec2Model ----
(***************************************************************************)
(* Roll-context correlation and dice-type tagging pipeline of the WoD v20  *)
(* home-rules module: the pending roll-context store, the Evil Botches     *)
(* outcome math and the Fate dice-type classification.                     *)
(*                                                                         *)
(* JavaScript values are modelled as follows.  null/undefined is the       *)
(* record Null.  A JavaScript number that may be NaN is a record           *)
(* [fin, val]: Num(n) for the finite number n, NaN for a non-finite one.   *)
(***************************************************************************)
EXTENDS Integers, Sequences, FiniteSets, TLC

VARIABLES
    pendingByUserId,  \* store.pendingByUserId: user id -> pending ctx or Null
    now,              \* Date.now(), in ms
    ticks,            \* number of clock advances so far
    hist,             \* per user, the last two store calls made for that user
    wodCfg,           \* CONFIG.worldofdarkness (Null when absent)
    tenIn,            \* argument of a getTenSuccessValue call
    tenOut,           \* its return value
    evIn,             \* argument object of a computeEvilBotchesResult call
    evOut,            \* its return value
    container,        \* the DiceRollContainer handed to the tagging hook
    rolls,            \* data.rolls: the d10 result of every Roll of the message
    diceTypes,        \* return value of computeDiceTypesForRollMessage
    msgs,             \* per user, the last two chat messages the user created
    draftQueueByKey,  \* state.draftQueueByKey: draft key -> queue of entries
    diceTypesByMessageId, \* state.diceTypesByMessageId: message.id -> entry
    nextSerial,       \* identity given to the next entry object created
    cacheCall,        \* the last call made on the dice-types cache
    fateEnabled,      \* what shouldEnableFate() returns
    lastFate,         \* ctx.lastContainer and ctx.lastContainerAtMs
    doc,              \* the chat message document: its rolls and module flags
    stage,            \* where the message is: "draft", "creating", "created"
    tagged,           \* what the tagging hook wrote to the message, or Null
    extracted,        \* per render hook, what its extractFateMeta returned
    renders,          \* per render hook, how often it ran for the message
    dlg,              \* the running call of a roll method patched for context
    recomputed,       \* the results of the successive outcome computations
    keyIn,            \* the draft and the created message of a key check
    fateCtx,          \* globalThis.__RUSBAR_HR_FATE_CTX__ without lastContainer
    calls,            \* per dialog, its call of the Fate-patched roll method
    containers,       \* the last numDices assignment and the Fate dice counts
    created,          \* the roll message created last, in a sequence
    actorFate,        \* actor.system.advantages.fate: max, permanent, ...
    updates,          \* the actor.update calls not yet applied, in order
    autoCall,         \* the last setPendingAutoSuccesses call and its user
    protos,           \* per dialog class, its prototype's roll method
    rollLog,          \* what one roll of a dialog of a class has triggered
    inlineOut         \* what the inline math of an earlier chat hook gave

storeVars == <<pendingByUserId, now, ticks, hist>>
tenVars == <<tenIn, tenOut>>
outcomeVars == <<evIn, evOut>>
diceVars == <<container, rolls, diceTypes>>
chatVars == <<msgs>>
cacheVars == <<draftQueueByKey, diceTypesByMessageId, nextSerial, cacheCall>>
metaVars == <<fateEnabled, lastFate, doc, stage, tagged, extracted, renders>>
flowVars == <<dlg, recomputed, keyIn, fateCtx, calls, containers, created>>
laterVars == <<chatVars, cacheVars, metaVars, flowVars>>
tailVars == <<actorFate, updates, autoCall, protos, rollLog, inlineOut>>
vars == <<storeVars, wodCfg, tenVars, outcomeVars, diceVars, laterVars,
          tailVars>>

Null == [kind |-> "null"]
Num(n) == [fin |-> TRUE, val |-> n]
NaN == [fin |-> FALSE, val |-> 0]

\* A Map with no entry.
EmptyMap == [k \in {} |-> Null]

(***************************************************************************)
(* Bounds of the model.                                                    *)
(***************************************************************************)
MaxTicks == 1
MaxDice == 2
MaxRolls == 4
MaxNumDices == 3
MaxEnqueues == 7

(***************************************************************************)
(* Roll-context store (roll-context/store.js).                             *)
(***************************************************************************)
Users == {"u1", "u2"}

\* The default of consumePendingRollContext's maxAgeMs parameter.
DefaultMaxAgeMs == 4000

\* maxAgeMs arguments tried: the default and an explicit one.
MaxAgeChoices == {DefaultMaxAgeMs, 0}

\* Clock advances between two calls: just inside, on and just past the TTL.
TickSteps == {DefaultMaxAgeMs - 1, DefaultMaxAgeMs, DefaultMaxAgeMs + 1}

\* The objects patchRollMethod passes to setPendingRollContext.
CtxInputs ==
    { [actorId |-> "a1", difficulty |-> 6, useWillpower |-> FALSE],
      [actorId |-> "a2", difficulty |-> 8, useWillpower |-> TRUE] }

\* const next = { ...ctx, createdAtMs }
MakeCtx(ctx, createdAtMs) ==
    [kind |-> "ctx",
     actorId |-> ctx.actorId,
     difficulty |-> ctx.difficulty,
     useWillpower |-> ctx.useWillpower,
     createdAtMs |-> createdAtMs]

\* The fields of a stored context that came from the caller of set.
CtxFields(c) ==
    [actorId |-> c.actorId, difficulty |-> c.difficulty,
     useWillpower |-> c.useWillpower]

\* The last two calls for a user, oldest first.  A call is recorded as
\* [op, in, prev, at, maxAgeMs, ret]: the operation, the ctx argument of a
\* set, the entry the store held for the user before the call, Date.now()
\* at the call, the maxAgeMs argument of a consume and the value returned.
Remember(h, call) == IF Len(h) < 2 THEN Append(h, call) ELSE <<h[2], call>>

\* Mutant: an existing entry is kept (first writer wins).
StoreAfterSet_KeepExisting(store, userId, next) ==
    IF store[userId] = Null THEN [store EXCEPT ![userId] = next] ELSE store

StoreAfterSet(store, userId, next) == [store EXCEPT ![userId] = next]

setPendingRollContext(userId, ctx) ==
    LET createdAtMs == now
        next == MakeCtx(ctx, createdAtMs)
    IN  /\ pendingByUserId' = StoreAfterSet(pendingByUserId, userId, next)
        /\ hist' = [hist EXCEPT ![userId] =
                       Remember(@, [op |-> "set", in |-> ctx,
                                    prev |-> pendingByUserId[userId],
                                    at |-> now, maxAgeMs |-> 0, ret |-> Null])]
        /\ UNCHANGED <<now, ticks>>

\* Mutant: an entry exactly maxAgeMs old already counts as stale.
IsStale_OffByOne(ctx, maxAgeMs) == now - ctx.createdAtMs >= maxAgeMs

\* age > maxAgeMs, with createdAt = ctx.createdAtMs || 0
IsStale(ctx, maxAgeMs) ==
    LET createdAt == IF ctx.createdAtMs # 0 THEN ctx.createdAtMs ELSE 0
        age == now - createdAt
    IN  age > maxAgeMs

ConsumeReturn(ctx, maxAgeMs) ==
    IF ctx = Null THEN Null
    ELSE IF IsStale(ctx, maxAgeMs) THEN Null
    ELSE ctx

\* Mutant: the entry is returned but not deleted.
StoreAfterConsume_NoDelete(store, userId) == store

StoreAfterConsume(store, userId) == [store EXCEPT ![userId] = Null]

consumePendingRollContext(userId, maxAgeMs) ==
    LET ctx == pendingByUserId[userId]
    IN  /\ pendingByUserId' =
               IF ctx = Null THEN pendingByUserId
               ELSE StoreAfterConsume(pendingByUserId, userId)
        /\ hist' = [hist EXCEPT ![userId] =
                       Remember(@, [op |-> "consume", in |-> Null,
                                    prev |-> ctx,
                                    at |-> now, maxAgeMs |-> maxAgeMs,
                                    ret |-> ConsumeReturn(ctx, maxAgeMs)])]
        /\ UNCHANGED <<now, ticks>>

\* Mutant: a timer sweeps contexts past the default TTL as time passes.
Tick_PrunesStale(d) ==
    /\ ticks < MaxTicks
    /\ now' = now + d
    /\ ticks' = ticks + 1
    /\ pendingByUserId' =
           [u \in Users |->
               IF /\ pendingByUserId[u] # Null
                  /\ now' - pendingByUserId[u].createdAtMs > DefaultMaxAgeMs
               THEN Null ELSE pendingByUserId[u]]
    /\ UNCHANGED hist

\* Wall-clock time passes between two calls.
Tick(d) ==
    /\ ticks < MaxTicks
    /\ now' = now + d
    /\ ticks' = ticks + 1
    /\ UNCHANGED <<pendingByUserId, hist>>

StoreInit ==
    /\ pendingByUserId = [u \in Users |-> Null]
    /\ now = 0
    /\ ticks = 0
    /\ hist = [u \in Users |-> <<>>]

\* No chat message was created yet.
ChatIdle == msgs = [u \in Users |-> <<>>]

\* getFateDiceTypesCacheState(): both maps start empty.
CacheIdle ==
    /\ draftQueueByKey = EmptyMap
    /\ diceTypesByMessageId = EmptyMap
    /\ nextSerial = 1
    /\ cacheCall = Null

\* No chat message is being created.
MetaIdle ==
    /\ fateEnabled = FALSE
    /\ lastFate = Null
    /\ doc = Null
    /\ stage = "idle"
    /\ tagged = Null
    /\ extracted = Null
    /\ renders = Null

\* No dialog roll is running.
FlowIdle ==
    /\ dlg = Null
    /\ recomputed = <<>>
    /\ keyIn = Null
    /\ fateCtx = Null
    /\ calls = Null
    /\ containers = Null
    /\ created = <<>>

\* No Fate dot was clicked, no auto-success was captured, no patch was
\* registered.
TailIdle ==
    /\ actorFate = Null
    /\ updates = <<>>
    /\ autoCall = Null
    /\ protos = Null
    /\ rollLog = Null
    /\ inlineOut = Null

IdleLater == ChatIdle /\ CacheIdle /\ MetaIdle /\ FlowIdle /\ TailIdle

IdleRest ==
    /\ IdleLater
    /\ wodCfg = Null
    /\ tenIn = Null /\ tenOut = Null
    /\ evIn = Null /\ evOut = Null
    /\ container = Null /\ rolls = <<>> /\ diceTypes = Null

Init == StoreInit /\ IdleRest

SetPending ==
    /\ \E u \in Users, c \in CtxInputs : setPendingRollContext(u, c)
    /\ UNCHANGED <<wodCfg, tailVars, tenVars, outcomeVars, diceVars, laterVars>>

ConsumePending ==
    /\ \E u \in Users, m \in MaxAgeChoices : consumePendingRollContext(u, m)
    /\ UNCHANGED <<wodCfg, tailVars, tenVars, outcomeVars, diceVars, laterVars>>

ClockTick ==
    /\ \E d \in TickSteps : Tick(d)
    /\ UNCHANGED <<wodCfg, tailVars, tenVars, outcomeVars, diceVars, laterVars>>

Next ==
    \/ SetPending
    \/ ConsumePending
    \/ ClockTick

Spec == Init /\ [][Next]_vars

(***************************************************************************)
(* CONFIG.worldofdarkness, the settings object of the host system.         *)
(***************************************************************************)
WodCfg(useSpec, specAdd, useTen, tenAdd, useExplode, explodeMode) ==
    [kind |-> "cfg",
     usespecialityAddSuccess |-> useSpec,
     specialityAddSuccess |-> specAdd,
     usetenAddSuccess |-> useTen,
     tenAddSuccess |-> tenAdd,
     useexplodingDice |-> useExplode,
     explodingDice |-> explodeMode]

\* Number(cfg.specialityAddSuccess), Number(cfg.tenAddSuccess): a missing
\* setting (NaN), zero, a negative number and positive numbers.
AddSuccessChoices == {NaN, Num(-1), Num(0), Num(1), Num(2), Num(3)}

(***************************************************************************)
(* getTenSuccessValue (evil-botches/rolls/get-ten-success-value.js).       *)
(***************************************************************************)
\* Mutant: the ten rule is looked at before the specialization rule.
TenSuccessValue_TenRuleFirst(cfg, isSpecialized) ==
    IF cfg = Null THEN 1
    ELSE IF cfg.usetenAddSuccess = TRUE
    THEN LET v == cfg.tenAddSuccess
         IN  IF v.fin /\ v.val > 0 THEN v.val ELSE 1
    ELSE IF cfg.usespecialityAddSuccess = TRUE /\ isSpecialized = TRUE
    THEN LET v == cfg.specialityAddSuccess
         IN  IF v.fin /\ v.val > 0 THEN v.val ELSE 2
    ELSE 1

TenSuccessValue(cfg, isSpecialized) ==
    IF cfg = Null THEN 1
    ELSE IF cfg.usespecialityAddSuccess = TRUE /\ isSpecialized = TRUE
    THEN LET v == cfg.specialityAddSuccess
         IN  IF v.fin /\ v.val > 0 THEN v.val ELSE 2
    ELSE IF cfg.usetenAddSuccess = TRUE
    THEN LET v == cfg.tenAddSuccess
         IN  IF v.fin /\ v.val > 0 THEN v.val ELSE 1
    ELSE 1

\* const cfg = CONFIG?.worldofdarkness
getTenSuccessValue(isSpecialized) == TenSuccessValue(wodCfg, isSpecialized)

TenCfgs ==
    {Null} \cup
    { WodCfg(us, sa, ut, ta, FALSE, "") :
        us \in BOOLEAN, sa \in AddSuccessChoices,
        ut \in BOOLEAN, ta \in AddSuccessChoices }

TenInit ==
    /\ wodCfg \in TenCfgs
    /\ tenIn \in {[isSpecialized |-> b] : b \in BOOLEAN}
    /\ tenOut = Null
    /\ StoreInit /\ IdleLater
    /\ evIn = Null /\ evOut = Null
    /\ container = Null /\ rolls = <<>> /\ diceTypes = Null

CallGetTenSuccessValue ==
    /\ tenOut = Null
    /\ tenOut' = Num(getTenSuccessValue(tenIn.isSpecialized))
    /\ UNCHANGED <<storeVars, wodCfg, tailVars, tenIn, outcomeVars, diceVars, laterVars>>

TenNext == CallGetTenSuccessValue

SpecTen == TenInit /\ [][TenNext]_vars

(***************************************************************************)
(* Claim about getTenSuccessValue, checked under SpecTen.                  *)
(***************************************************************************)
SpecRuleApplies ==
    /\ wodCfg # Null
    /\ wodCfg.usespecialityAddSuccess
    /\ tenIn.isSpecialized

TenRuleApplies ==
    /\ wodCfg # Null
    /\ ~SpecRuleApplies
    /\ wodCfg.usetenAddSuccess

\* C4 as stated: a 10 adds 2 when the specialization rule is active and
\* the roll is specialized; otherwise the configured ten-bonus value (read
\* here only for a usable setting, a finite number > 0) when the ten rule
\* is active; otherwise 1.
C4_TenValueAsStated ==
    tenOut # Null =>
        /\ SpecRuleApplies => tenOut.val = 2
        /\ (TenRuleApplies /\ wodCfg.tenAddSuccess.fin
               /\ wodCfg.tenAddSuccess.val > 0)
              => tenOut.val = wodCfg.tenAddSuccess.val
        /\ (~SpecRuleApplies /\ ~TenRuleApplies) => tenOut.val = 1

\* C4 (amended): a 10 adds the configured specialityAddSuccess (2 when that
\* setting is not a finite number > 0) when the specialization rule is
\* active and the roll is specialized; otherwise the configured
\* tenAddSuccess (1 when that setting is not a finite number > 0) when the
\* ten rule is active; otherwise, and when the system config is absent, 1.
C4_TenValuePriority ==
    tenOut # Null =>
        /\ tenOut.fin
        /\ SpecRuleApplies =>
              tenOut.val =
                  IF wodCfg.specialityAddSuccess.fin
                        /\ wodCfg.specialityAddSuccess.val > 0
                  THEN wodCfg.specialityAddSuccess.val ELSE 2
        /\ TenRuleApplies =>
              tenOut.val =
                  IF wodCfg.tenAddSuccess.fin /\ wodCfg.tenAddSuccess.val > 0
                  THEN wodCfg.tenAddSuccess.val ELSE 1
        /\ (~SpecRuleApplies /\ ~TenRuleApplies) => tenOut.val = 1

\* Both rules are active with different values and the roll is
\* specialized: the specialization value is the one returned.
C4_Witness ==
    /\ tenOut # Null
    /\ SpecRuleApplies
    /\ wodCfg.usetenAddSuccess
    /\ wodCfg.specialityAddSuccess = Num(3)
    /\ wodCfg.tenAddSuccess = Num(2)
    /\ tenOut = Num(3)

(***************************************************************************)
(* computeOutcome (evil-botches/outcome/compute-outcome.js) and            *)
(* computeEvilBotchesResult (rolls/compute-evil-botches-result.js).        *)
(***************************************************************************)
\* Number.isFinite(x) ? x : 0
FiniteOrZero(x) == IF x.fin THEN x.val ELSE 0

Outcome(kind, value, netBefore, netAfter, rule) ==
    [kind |-> kind, value |-> value, netBeforeWillpower |-> netBefore,
     netAfterWillpower |-> netAfter, willpowerRuleApplied |-> rule]

\* Mutant: the willpower home rule is not applied.
computeOutcome_NoWillpowerRule(successesBeforeOnes, ones, isWillpowerUsed) ==
    LET s == FiniteOrZero(successesBeforeOnes)
        o == FiniteOrZero(ones)
        net == s - o
    IN  IF net > 0 THEN Outcome("success", net, net, net, "none")
        ELSE IF o > s THEN Outcome("botch", o - s, net, net, "none")
        ELSE Outcome("failure", 0, net, net, "none")

\* Mutant: the classic botch rule, a botch only when no success was rolled.
computeOutcome_BotchNeedsNoSuccess(successesBeforeOnes, ones, isWillpowerUsed) ==
    LET s == FiniteOrZero(successesBeforeOnes)
        o == FiniteOrZero(ones)
        netBeforeWillpower == s - o
        used == isWillpowerUsed = TRUE
        netAfterWillpower ==
            IF used
            THEN IF netBeforeWillpower >= 1 THEN netBeforeWillpower + 1 ELSE 1
            ELSE netBeforeWillpower
        willpowerRuleApplied ==
            IF used
            THEN IF netBeforeWillpower >= 1 THEN "plus-1" ELSE "set-to-1"
            ELSE "none"
    IN  IF netAfterWillpower > 0
        THEN Outcome("success", netAfterWillpower, netBeforeWillpower,
                     netAfterWillpower, willpowerRuleApplied)
        ELSE IF o > s /\ s = 0
        THEN Outcome("botch", o - s, netBeforeWillpower,
                     netAfterWillpower, willpowerRuleApplied)
        ELSE Outcome("failure", 0, netBeforeWillpower,
                     netAfterWillpower, willpowerRuleApplied)

computeOutcome(successesBeforeOnes, ones, isWillpowerUsed) ==
    LET s == FiniteOrZero(successesBeforeOnes)
        o == FiniteOrZero(ones)
        netBeforeWillpower == s - o
        used == isWillpowerUsed = TRUE
        netAfterWillpower ==
            IF used
            THEN IF netBeforeWillpower >= 1 THEN netBeforeWillpower + 1 ELSE 1
            ELSE netBeforeWillpower
        willpowerRuleApplied ==
            IF used
            THEN IF netBeforeWillpower >= 1 THEN "plus-1" ELSE "set-to-1"
            ELSE "none"
    IN  IF netAfterWillpower > 0
        THEN Outcome("success", netAfterWillpower, netBeforeWillpower,
                     netAfterWillpower, willpowerRuleApplied)
        ELSE IF o > s
        THEN Outcome("botch", o - s, netBeforeWillpower,
                     netAfterWillpower, willpowerRuleApplied)
        ELSE Outcome("failure", 0, netBeforeWillpower,
                     netAfterWillpower, willpowerRuleApplied)

\* formatOutcomeText: the localization key and its {value} argument.
formatOutcomeText(out) ==
    IF out.kind = "botch"
    THEN [key |-> "rusbar.homerules.evilBotches.chat.botch", value |-> out.value]
    ELSE IF out.kind = "success"
    THEN [key |-> "rusbar.homerules.evilBotches.chat.success", value |-> out.value]
    ELSE [key |-> "rusbar.homerules.evilBotches.chat.failure", value |-> 0]

\* Mutant: the difficulty test comes first, so a 1 at difficulty <= 1 and a
\* 10 count as plain successes.
CountDie_DifficultyFirst(acc, value, difficulty, tenValue) ==
    IF value >= difficulty
    THEN [acc EXCEPT !.diceSuccesses = @ + 1]
    ELSE IF value = 1
    THEN [acc EXCEPT !.ones = @ + 1]
    ELSE IF value = 10
    THEN [acc EXCEPT !.diceSuccesses = @ + tenValue]
    ELSE acc

\* One iteration of the loop over dieValues.
CountDie(acc, value, difficulty, tenValue) ==
    IF value = 1
    THEN [acc EXCEPT !.ones = @ + 1]
    ELSE IF value = 10
    THEN [acc EXCEPT !.diceSuccesses = @ + tenValue]
    ELSE IF value >= difficulty
    THEN [acc EXCEPT !.diceSuccesses = @ + 1]
    ELSE acc

RECURSIVE CountDice(_, _, _, _, _)
\* for (const value of dieValues) ..., from index i on.
CountDice(acc, dieValues, i, difficulty, tenValue) ==
    IF i > Len(dieValues) THEN acc
    ELSE CountDice(CountDie(acc, dieValues[i], difficulty, tenValue),
                   dieValues, i + 1, difficulty, tenValue)

computeEvilBotchesResult(in) ==
    LET tenValue == getTenSuccessValue(in.isSpecialized)
        counted == CountDice([ones |-> 0, diceSuccesses |-> 0],
                             in.dieValues, 1, in.difficulty, tenValue)
        successesBeforeOnes ==
            counted.diceSuccesses + FiniteOrZero(in.autoSuccesses)
        outcome == computeOutcome(Num(successesBeforeOnes), Num(counted.ones),
                                  in.isWillpowerUsed)
    IN  [kind |-> "result",
         ones |-> counted.ones,
         diceSuccesses |-> counted.diceSuccesses,
         successesBeforeOnes |-> successesBeforeOnes,
         tenValue |-> tenValue,
         outcome |-> outcome,
         outcomeText |-> formatOutcomeText(outcome)]

\* Faces of a d10.
DieFaces == 1..10

\* Every pool of at most MaxDice dice, and the pool [1,1,5].
DieValueChoices ==
    UNION {[1..k -> DieFaces] : k \in 0..MaxDice} \cup {<<1, 1, 5>>}

\* rollCtx.difficulty: always a finite number when the math runs.
Difficulties == {1, 6, 10, 11}

\* rollCtx.autoSuccesses ? Number(rollCtx.autoSuccesses) : 0
AutoSuccessChoices == {NaN, Num(0), Num(2)}

\* System settings tried with the outcome math: no config object, both
\* ten rules off, both on with different values.
OutcomeCfgs ==
    { Null,
      WodCfg(FALSE, Num(2), FALSE, Num(1), FALSE, ""),
      WodCfg(TRUE, Num(2), TRUE, Num(3), FALSE, "") }

OutcomeInit ==
    /\ wodCfg \in OutcomeCfgs
    /\ evIn \in [kind : {"args"},
                 dieValues : DieValueChoices,
                 difficulty : Difficulties,
                 isSpecialized : BOOLEAN,
                 autoSuccesses : AutoSuccessChoices,
                 isWillpowerUsed : BOOLEAN]
    /\ evOut = Null
    /\ StoreInit /\ IdleLater
    /\ tenIn = Null /\ tenOut = Null
    /\ container = Null /\ rolls = <<>> /\ diceTypes = Null

CallComputeEvilBotchesResult ==
    /\ evOut = Null
    /\ evOut' = computeEvilBotchesResult(evIn)
    /\ UNCHANGED <<storeVars, wodCfg, tailVars, tenVars, evIn, diceVars, laterVars>>

OutcomeNext == CallComputeEvilBotchesResult

SpecOutcome == OutcomeInit /\ [][OutcomeNext]_vars

(***************************************************************************)
(* Claims about the outcome math, checked under SpecOutcome.               *)
(***************************************************************************)
\* Indices of the dice of the call that satisfy a test.
DiceShowing(v) == {i \in 1..Len(evIn.dieValues) : evIn.dieValues[i] = v}

DiceMeetingDifficulty ==
    {i \in 1..Len(evIn.dieValues) :
        /\ evIn.dieValues[i] # 1
        /\ evIn.dieValues[i] # 10
        /\ evIn.dieValues[i] >= evIn.difficulty}

AutoCounted == IF evIn.autoSuccesses.fin THEN evIn.autoSuccesses.val ELSE 0

C2_NoWillpowerOutcome ==
    (evOut # Null /\ ~evIn.isWillpowerUsed) =>
        LET sc == evOut.diceSuccesses + AutoCounted
            o == evOut.ones
        IN  /\ sc > o => /\ evOut.outcome.kind = "success"
                          /\ evOut.outcome.value = sc - o
            /\ o > sc => /\ evOut.outcome.kind = "botch"
                          /\ evOut.outcome.value = o - sc
            /\ sc = o => /\ evOut.outcome.kind = "failure"
                          /\ evOut.outcome.value = 0
            /\ (evIn.dieValues = <<1, 1, 5>> /\ evIn.difficulty = 6
                   /\ AutoCounted = 0)
                  => /\ evOut.outcome.kind = "botch"
                     /\ evOut.outcome.value = 2

C2_Witness ==
    /\ evOut # Null
    /\ ~evIn.isWillpowerUsed
    /\ evIn.dieValues = <<1, 1, 5>>
    /\ evIn.difficulty = 6
    /\ evIn.autoSuccesses = Num(0)
    /\ evOut.outcome.kind = "botch"
    /\ evOut.outcome.value = 2

\* C3: die counting.  ones is the number of dice showing 1, every 10 adds
\* the ten-value whatever the difficulty, every other die adds 1 exactly
\* when its value >= difficulty, and successesBeforeOnes is the dice
\* successes plus the auto-successes (0 when these are not finite).
C3_DieCounting ==
    evOut # Null =>
        /\ evOut.ones = Cardinality(DiceShowing(1))
        /\ evOut.diceSuccesses =
               TenSuccessValue(wodCfg, evIn.isSpecialized)
                   * Cardinality(DiceShowing(10))
               + Cardinality(DiceMeetingDifficulty)
        /\ evOut.successesBeforeOnes = evOut.diceSuccesses + AutoCounted

\* A 1 and a 10 rolled at difficulty 1 with non-finite auto-successes: the
\* 1 is a one and not a success, the 10 adds the ten-value.
C3_Witness ==
    /\ evOut # Null
    /\ evIn.difficulty <= 1
    /\ evIn.dieValues = <<1, 10>>
    /\ ~evIn.autoSuccesses.fin
    /\ evOut.ones = 1
    /\ evOut.diceSuccesses = evOut.tenValue
    /\ evOut.successesBeforeOnes = evOut.tenValue

(***************************************************************************)
(* computeDiceTypesForRollMessage (fate/tag-dice-types hook).  A Roll is   *)
(* the record [result], the raw terms[0].results[0].result as a number     *)
(* (NaN when it is missing); a container field is a number or NaN.         *)
(***************************************************************************)
\* Number(x ?? 0) || 0
NumberOrZero(x) == IF x.fin THEN x.val ELSE 0

Min(a, b) == IF a < b THEN a ELSE b
Max(a, b) == IF a > b THEN a ELSE b

\* extractSingleD10Value: parseInt(result, 10), or 0 when not available.
extractSingleD10Value(roll) == IF roll.result.fin THEN roll.result.val ELSE 0

\* canExplodeOnThisRoll; cfg is CONFIG?.worldofdarkness ?? {}
CanExplodeOnThisRoll(cfg, c) ==
    /\ cfg # Null
    /\ cfg.useexplodingDice = TRUE
    /\ \/ cfg.explodingDice = "always"
       \/ (cfg.explodingDice = "speciality" /\ c.speciality = TRUE)

\* container.targetlist when it is a non-empty array, else one target of
\* container.numDices dice.
TargetList(c) ==
    IF Len(c.targetlist) > 0
    THEN c.targetlist
    ELSE <<[numDices |-> Num(NumberOrZero(c.numDices))]>>

Repeat(tag, n) == [i \in 1..n |-> tag]

\* Mutant: special dice are clamped to the whole pool and Fate dice get
\* what is left.
TargetQueue_SpecialFirst(target, woundPenalty, specialCountRaw, fateCountRaw) ==
    LET numberDices == Max(0, NumberOrZero(target.numDices) + woundPenalty)
        specialCount == Min(Max(0, specialCountRaw), numberDices)
        fateCount == Min(Max(0, fateCountRaw), numberDices - specialCount)
    IN  Repeat("special", specialCount)
          \o Repeat("base", numberDices - specialCount - fateCount)
          \o Repeat("fate", fateCount)

\* The initial queue of one target: [special...][base...][fate...]
TargetQueue(target, woundPenalty, specialCountRaw, fateCountRaw) ==
    LET baseTargetDice == NumberOrZero(target.numDices)
        numberDices == Max(0, baseTargetDice + woundPenalty)
        fateCount == Min(Max(0, fateCountRaw), numberDices)
        baseCount == numberDices - fateCount
        specialCount == Min(Max(0, specialCountRaw), baseCount)
    IN  Repeat("special", specialCount)
          \o Repeat("base", baseCount - specialCount)
          \o Repeat("fate", fateCount)

\* Mutant: a 10 never adds a die to the queue.
QueueAfterDie_NoExplosion(queue, value, canExplode) == Tail(queue)

\* queue.shift(), then queue.unshift(dieType) when the die exploded.
QueueAfterDie(queue, value, canExplode) ==
    IF canExplode = TRUE /\ value = 10
    THEN <<Head(queue)>> \o Tail(queue)
    ELSE Tail(queue)

RECURSIVE ConsumeQueue(_, _, _, _)
\* while (queue.length > 0 && rollIdx < rolls.length); st is
\* [rollIdx, out], rollIdx counting the rolls consumed so far.
ConsumeQueue(queue, st, rs, canExplode) ==
    IF Len(queue) > 0 /\ st.rollIdx < Len(rs)
    THEN LET dieType == Head(queue)
             roll == rs[st.rollIdx + 1]
             value == extractSingleD10Value(roll)
         IN  ConsumeQueue(QueueAfterDie(queue, value, canExplode),
                          [rollIdx |-> st.rollIdx + 1,
                           out |-> Append(st.out, dieType)],
                          rs, canExplode)
    ELSE st

RECURSIVE ConsumeTargets(_, _, _, _, _)
\* for (const target of targetlist), from target k on.
ConsumeTargets(targetlist, k, st, c, rs) ==
    IF k > Len(targetlist) THEN st
    ELSE ConsumeTargets(
             targetlist, k + 1,
             ConsumeQueue(TargetQueue(targetlist[k],
                                      NumberOrZero(c.woundpenalty),
                                      NumberOrZero(c.numSpecialDices),
                                      NumberOrZero(c.fateDiceCount)),
                          st, rs,
                          CanExplodeOnThisRoll(wodCfg, c)),
             c, rs)

\* Mutant: the rolls left over are not tagged.
TagLeftover_Dropped(st, rs) == st.out

\* while (rollIdx < rolls.length) out.push("unknown")
TagLeftover(st, rs) == st.out \o Repeat("unknown", Len(rs) - st.rollIdx)

computeDiceTypesForRollMessage(c, rs) ==
    TagLeftover(ConsumeTargets(TargetList(c), 1,
                               [rollIdx |-> 0, out |-> <<>>], c, rs),
                rs)

\* Results a d10 Roll can carry, as far as tagging can tell them apart.
RollResults == {Num(7), Num(10)}

\* Every message of at most MaxRolls rolls, the rolls [10,7,3,9] and a
\* message whose second roll carries no result.
RollsChoices ==
    UNION {[1..k -> {[result |-> r] : r \in RollResults}] : k \in 0..MaxRolls}
    \cup {<<[result |-> Num(10)], [result |-> Num(7)],
            [result |-> Num(3)], [result |-> Num(9)]>>,
          <<[result |-> Num(10)], [result |-> NaN]>>}

NumDicesChoices == {Num(n) : n \in 0..MaxNumDices}

\* container.targetlist: absent or empty, one target, two targets.
TargetListChoices ==
    {<<>>}
    \cup {<<[numDices |-> n]>> : n \in NumDicesChoices}
    \cup {<<[numDices |-> Num(a)], [numDices |-> Num(b)]>> : a, b \in 1..2}

ContainerChoices ==
    { [kind |-> "container", targetlist |-> tl, numDices |-> n,
       woundpenalty |-> w, numSpecialDices |-> sp, fateDiceCount |-> f,
       speciality |-> y] :
        tl \in TargetListChoices, n \in NumDicesChoices,
        w \in {Num(0), Num(-1)}, sp \in {NaN, Num(1), Num(4)},
        f \in {Num(0), Num(1), Num(4)}, y \in BOOLEAN }

\* Only a container without targets falls back on its own numDices.
ContainerInputs ==
    {c \in ContainerChoices : Len(c.targetlist) > 0 => c.numDices = Num(0)}

\* Exploding-dice settings: no config, off, always, on specialities only.
DiceCfgs ==
    { Null,
      WodCfg(FALSE, Num(2), FALSE, Num(1), FALSE, "always"),
      WodCfg(FALSE, Num(2), FALSE, Num(1), TRUE, "always"),
      WodCfg(FALSE, Num(2), FALSE, Num(1), TRUE, "speciality") }

DiceInit ==
    /\ wodCfg \in DiceCfgs
    /\ container \in ContainerInputs
    /\ rolls \in RollsChoices
    /\ diceTypes = Null
    /\ StoreInit /\ IdleLater
    /\ tenIn = Null /\ tenOut = Null
    /\ evIn = Null /\ evOut = Null

\* The preCreateChatMessage tagging hook computes the tags of the message.
CallComputeDiceTypes ==
    /\ diceTypes = Null
    /\ diceTypes' =
           [kind |-> "tags",
            tags |-> computeDiceTypesForRollMessage(container, rolls)]
    /\ UNCHANGED <<storeVars, wodCfg, tailVars, tenVars, outcomeVars, container, rolls,
                   laterVars>>

DiceNext == CallComputeDiceTypes

SpecDice == DiceInit /\ [][DiceNext]_vars

(***************************************************************************)
(* Claims about the dice-type classification, checked under SpecDice.      *)
(***************************************************************************)
Tags == diceTypes.tags

RollValue(i) == extractSingleD10Value(rolls[i])

Exploding == CanExplodeOnThisRoll(wodCfg, container)

\* n = max(0, target.numDices + woundPenalty) of target k.
EffectiveDice(k) ==
    Max(0, NumberOrZero(TargetList(container)[k].numDices)
             + NumberOrZero(container.woundpenalty))

RECURSIVE SlotsBefore(_)
\* The effective dice of the targets before target k.
SlotsBefore(k) == IF k <= 1 THEN 0 ELSE SlotsBefore(k - 1) + EffectiveDice(k - 1)

TotalSlots == SlotsBefore(Len(TargetList(container)) + 1)

KnownTags == {i \in 1..Len(Tags) : Tags[i] # "unknown"}

\* One target of exactly three base dice: no Fate and no special dice.
ThreeBaseDice ==
    /\ Len(TargetList(container)) = 1
    /\ EffectiveDice(1) = 3
    /\ NumberOrZero(container.fateDiceCount) <= 0
    /\ NumberOrZero(container.numSpecialDices) <= 0

RollsAre(values) ==
    /\ Len(rolls) = Len(values)
    /\ \A i \in 1..Len(values) : RollValue(i) = values[i]

C6_OneTagPerRoll ==
    diceTypes # Null =>
        /\ Len(Tags) = Len(rolls)
        /\ \A i \in 1..Len(Tags) :
               /\ Tags[i] \in {"special", "base", "fate", "unknown"}
               /\ Tags[i] = "unknown"
                    => \A j \in i..Len(Tags) : Tags[j] = "unknown"
        /\ LET known == Cardinality(KnownTags)
                exploded ==
                    IF Exploding
                    THEN Cardinality({i \in 1..known : RollValue(i) = 10})
                    ELSE 0
            IN  known = Len(rolls) \/ known = TotalSlots + exploded

\* More rolls than slots: tagged rolls first, then 'unknown' ones.
C6_Witness ==
    /\ diceTypes # Null
    /\ TotalSlots >= 1
    /\ Len(rolls) > TotalSlots
    /\ Tags[1] # "unknown"
    /\ Tags[Len(rolls)] = "unknown"
    /\ Len(Tags) = Len(rolls)

\* No die among the first m rolls exploded.
NoExplosionIn(m) == ~Exploding \/ \A i \in 1..m : RollValue(i) # 10

\* C7: slot sizing and priority.  For a target of n effective dice, with
\* f = min(max(0, fateRaw), n) and s = min(max(0, specialRaw), n - f), when
\* no die exploded up to the end of the target and the rolls reach that
\* end, the n tags of the target are s 'special', n - f - s 'base', then f
\* 'fate'.
C7_SlotPriority ==
    diceTypes # Null =>
        \A k \in 1..Len(TargetList(container)) :
            LET n == EffectiveDice(k)
                f == Min(Max(0, NumberOrZero(container.fateDiceCount)), n)
                sp == Min(Max(0, NumberOrZero(container.numSpecialDices)), n - f)
                off == SlotsBefore(k)
            IN  (Len(rolls) >= off + n /\ NoExplosionIn(off + n))
                  => \A i \in 1..n :
                        Tags[off + i] =
                            IF i <= sp THEN "special"
                            ELSE IF i <= n - f THEN "base"
                            ELSE "fate"

\* Four special dice asked for a pool of three with one Fate die: two
\* special slots, and the Fate slot is kept.
C7_Witness ==
    /\ diceTypes # Null
    /\ Len(TargetList(container)) = 1
    /\ EffectiveDice(1) = 3
    /\ NumberOrZero(container.fateDiceCount) = 1
    /\ NumberOrZero(container.numSpecialDices) = 4
    /\ Len(rolls) >= 3
    /\ NoExplosionIn(3)
    /\ Tags[1] = "special" /\ Tags[2] = "special" /\ Tags[3] = "fate"

(***************************************************************************)
(* Claims about the roll-context store, checked under Spec.                *)
(***************************************************************************)
Last(h) == h[Len(h)]

\* C8: one-shot consumption.  Right after consumePendingRollContext(user)
\* has returned a context the store holds no entry for that user, and when
\* the next store call for that user is another consume (no
\* setPendingRollContext in between) it returns null.
C8_OneShotConsume ==
    \A u \in Users :
        /\ (hist[u] # <<>> /\ Last(hist[u]).op = "consume"
               /\ Last(hist[u]).ret # Null)
              => pendingByUserId[u] = Null
        /\ (Len(hist[u]) = 2 /\ hist[u][1].op = "consume"
               /\ hist[u][1].ret # Null /\ hist[u][2].op = "consume")
              => hist[u][2].ret = Null

C8_Witness ==
    \E u \in Users :
        /\ Len(hist[u]) = 2
        /\ hist[u][1].op = "consume" /\ hist[u][1].ret # Null
        /\ hist[u][2].op = "consume" /\ hist[u][2].ret = Null

\* C9: TTL expiry.  A consume that finds an entry returns it when
\* now - createdAt <= maxAgeMs; when now - createdAt > maxAgeMs it returns
\* null.  Either way the entry is deleted, and a consume that follows a
\* stale drop returns null as well.
C9_TtlExpiry ==
    \A u \in Users :
        /\ (hist[u] # <<>> /\ Last(hist[u]).op = "consume"
               /\ Last(hist[u]).prev # Null)
              => LET c == Last(hist[u])
                     age == c.at - c.prev.createdAtMs
                 IN  /\ age <= c.maxAgeMs => c.ret = c.prev
                     /\ age > c.maxAgeMs => c.ret = Null
                     /\ pendingByUserId[u] = Null
        /\ (Len(hist[u]) = 2 /\ hist[u][1].op = "consume"
               /\ hist[u][1].prev # Null /\ hist[u][1].ret = Null
               /\ hist[u][2].op = "consume")
              => hist[u][2].ret = Null

\* An entry one millisecond past the default TTL is dropped by a consume,
\* and the consume after it returns null too.
C9_Witness ==
    \E u \in Users :
        /\ Len(hist[u]) = 2
        /\ hist[u][1].op = "consume" /\ hist[u][1].prev # Null
        /\ hist[u][1].maxAgeMs = DefaultMaxAgeMs
        /\ hist[u][1].at - hist[u][1].prev.createdAtMs = DefaultMaxAgeMs + 1
        /\ hist[u][1].ret = Null
        /\ hist[u][2].op = "consume" /\ hist[u][2].ret = Null
        /\ pendingByUserId[u] = Null

\* C10: last writer wins.  The store maps every user id to at most one
\* context; right after setPendingRollContext(user, ctx) the entry of that
\* user is ctx stamped with createdAtMs = now, whatever was stored before;
\* and a consume that follows a set returns either null (stale) or exactly
\* the fields of that most recent set, stamped with the time of that set.
C10_LastWriterWins ==
    /\ DOMAIN pendingByUserId = Users
    /\ \A u \in Users :
        /\ pendingByUserId[u] # Null => pendingByUserId[u].kind = "ctx"
        /\ (hist[u] # <<>> /\ Last(hist[u]).op = "set")
              => pendingByUserId[u] =
                     MakeCtx(Last(hist[u]).in, Last(hist[u]).at)
        /\ (Len(hist[u]) = 2 /\ hist[u][1].op = "set"
               /\ hist[u][2].op = "consume")
              => /\ hist[u][2].prev = MakeCtx(hist[u][1].in, hist[u][1].at)
                 /\ hist[u][2].ret # Null
                       => /\ CtxFields(hist[u][2].ret) = hist[u][1].in
                          /\ hist[u][2].ret.createdAtMs = hist[u][1].at

\* A set that replaced an entry with other fields, followed by a consume
\* that returned the fields of the replacing set.
C10_Witness ==
    \E u \in Users :
        /\ Len(hist[u]) = 2
        /\ hist[u][1].op = "set" /\ hist[u][1].prev # Null
        /\ CtxFields(hist[u][1].prev) # hist[u][1].in
        /\ hist[u][2].op = "consume" /\ hist[u][2].ret # Null
        /\ CtxFields(hist[u][2].ret) = hist[u][1].in

(***************************************************************************)
(* registerRollContextChatAttachmentHook                                   *)
(* (roll-context/attach-roll-context-to-chat.js): the preCreateChatMessage *)
(* hook that moves the pending context of the creating user onto the chat  *)
(* message being created.                                                  *)
(***************************************************************************)
\* A user id that is undefined (ids are strings, so a string stands for it).
NoUserId == "undefined"

\* game.user.id: the store lives in one client, the client of this user.
GameUserId == "u1"

\* (userId argument of the hook, game.user.id).  preCreateChatMessage runs
\* in the client that creates the message, so a userId that is given is
\* the id of this client's user; either value may be missing.
HookUserArgs ==
    { <<GameUserId, GameUserId>>, <<NoUserId, GameUserId>>,
      <<GameUserId, NoUserId>>, <<NoUserId, NoUserId>> }

\* Clock advances between two events of a roll: within and past the TTL.
ChatTickSteps == {1000, DefaultMaxAgeMs + 1}

\* const uid = userId ?? game?.user?.id
HookUid(userId, gameUserId) ==
    IF userId # NoUserId THEN userId ELSE gameUserId

\* The source of the created message after the hook ran: whether its
\* content is a system roll card, and flags[MODULE_ID].rollContext with
\* its rollContextVersion (Null and 0 when the hook attached nothing).
ChatMessage(isRollCard, ctx) ==
    [isRollCard |-> isRollCard,
     rollContext |-> ctx,
     rollContextVersion |-> IF ctx = Null THEN 0 ELSE 1]

\* The hook body.  It asks the store for the pending context of uid for
\* every message the user creates, whatever the content of the message,
\* and writes what it gets to the message with doc.updateSource.
preCreateChatMessage(userId, gameUserId, isRollCard) ==
    LET uid == HookUid(userId, gameUserId)
    IN  IF uid = NoUserId
        THEN UNCHANGED <<storeVars, msgs>>
        ELSE LET ctx == ConsumeReturn(pendingByUserId[uid], DefaultMaxAgeMs)
             IN  /\ consumePendingRollContext(uid, DefaultMaxAgeMs)
                 /\ msgs' = [msgs EXCEPT ![uid] =
                                Remember(@, ChatMessage(isRollCard, ctx))]

\* A roll dialog's patched roll method runs: const userId = game.user.id.
DialogRoll ==
    /\ \E c \in CtxInputs : setPendingRollContext(GameUserId, c)
    /\ UNCHANGED <<msgs, wodCfg, tailVars, tenVars, outcomeVars, diceVars, cacheVars, metaVars,
                   flowVars>>

\* The host creates a chat message: a roll card or any other message.
CreateChatMessage ==
    /\ \E a \in HookUserArgs, isRollCard \in BOOLEAN :
           preCreateChatMessage(a[1], a[2], isRollCard)
    /\ UNCHANGED <<wodCfg, tailVars, tenVars, outcomeVars, diceVars, cacheVars, metaVars,
                   flowVars>>

ChatClockTick ==
    /\ \E d \in ChatTickSteps : Tick(d)
    /\ UNCHANGED <<msgs, wodCfg, tailVars, tenVars, outcomeVars, diceVars, cacheVars, metaVars,
                   flowVars>>

ChatNext ==
    \/ DialogRoll
    \/ CreateChatMessage
    \/ ChatClockTick

\* Wall-clock time always passes; nothing in the module schedules a store
\* call on its own (the store has no timer), so only the clock is fair.
SpecChat == Init /\ [][ChatNext]_vars /\ WF_vars(ChatClockTick)

(***************************************************************************)
(* Claims about the attachment hook and the store, checked under SpecChat. *)
(***************************************************************************)
\* The last store call for u was the hook's consume for u's last message.
LastCallWasHook(u) ==
    /\ hist[u] # <<>> /\ Last(hist[u]).op = "consume"
    /\ msgs[u] # <<>>

\* C11 as stated: only a roll-card message consumes the pending context.
\* A message of the user that is not a roll card gets no roll context and
\* leaves the pending context in the store; and when such a message is
\* followed by the roll's own message while the context is still within
\* its TTL, the roll's message receives that context.
C11_ConsumedOnlyByRollCard ==
    \A u \in Users :
        /\ (LastCallWasHook(u) /\ ~Last(msgs[u]).isRollCard)
              => /\ Last(msgs[u]).rollContext = Null
                 /\ pendingByUserId[u] = Last(hist[u]).prev
        /\ (/\ Len(hist[u]) = 2 /\ Len(msgs[u]) = 2
            /\ hist[u][1].op = "consume" /\ hist[u][2].op = "consume"
            /\ hist[u][1].prev # Null
            /\ ~msgs[u][1].isRollCard /\ msgs[u][2].isRollCard
            /\ hist[u][2].at - hist[u][1].prev.createdAtMs <= DefaultMaxAgeMs)
              => msgs[u][2].rollContext = hist[u][1].prev

\* A context is stale once it is older than the TTL of the hook's consume.
Abandoned(u) ==
    /\ pendingByUserId[u] # Null
    /\ now - pendingByUserId[u].createdAtMs > DefaultMaxAgeMs

\* C12 as stated: a pending context that is set and never consumed is
\* eventually deleted from the store once its TTL has passed, with no
\* consume or set call for that user: a context past its TTL does not
\* stay the stored one for ever (a consume or a set would end that too,
\* so only a run without them can violate this).
C12_AbandonedIsDeleted ==
    \A u \in Users : Abandoned(u) ~> ~Abandoned(u)

\* C12 (amended): the store has no timer.  The entry of a user changes
\* only in a set or consume call made for that user at that moment; a
\* context past its TTL stays in the store until the next consume for the
\* user, which deletes it and hands nothing out, or until the next set,
\* which replaces it.
C12_LazyExpiry ==
    [][\A u \in Users :
          /\ pendingByUserId'[u] # pendingByUserId[u]
                => /\ hist'[u] # <<>>
                   /\ Last(hist'[u]).op \in {"set", "consume"}
                   /\ Last(hist'[u]).at = now
                   /\ Last(hist'[u]).prev = pendingByUserId[u]
          /\ (Abandoned(u) /\ hist'[u] # hist[u]
                 /\ Last(hist'[u]).op = "consume")
                => /\ Last(hist'[u]).ret = Null
                   /\ pendingByUserId'[u] = Null]_vars

\* A context was set, the clock went past the TTL and no call was made for
\* the user since: the context is still in the store.
C12_Witness ==
    \E u \in Users :
        /\ Abandoned(u)
        /\ Last(hist[u]).op = "set"
        /\ pendingByUserId[u] = MakeCtx(Last(hist[u]).in, Last(hist[u]).at)
        /\ ticks > 0

(***************************************************************************)
(* Fate dice-types transport cache (fate/cache/): diceTypes computed for   *)
(* a message draft are queued under a draft key, moved under message.id    *)
(* when the message is created and consumed once when it is rendered.      *)
(***************************************************************************)
\* state.TTL_MS and state.MAX_QUEUE_PER_KEY
TTL_MS == 60000
MAX_QUEUE_PER_KEY == 5

\* A field of the speaker, or a message id, that is undefined.
Missing == "undefined"

\* Clock advances between two cache calls: on and just past the TTL.
CacheTickSteps == {TTL_MS, TTL_MS + 1}

\* x ?? ""
OrEmpty(x) == IF x = Missing THEN "" ELSE x

\* Mutant: the key starts with the actor and ends with the scene.
buildDraftKey_ActorFirst(speaker, timestamp, rollCount) ==
    LET sp == IF speaker = Null
              THEN [scene |-> Missing, token |-> Missing, actor |-> Missing]
              ELSE speaker
        ts == IF timestamp.fin THEN timestamp.val ELSE 0
        rc == rollCount
    IN  OrEmpty(sp.actor) \o ":" \o OrEmpty(sp.token) \o ":"
          \o OrEmpty(sp.scene) \o ":" \o ToString(ts) \o ":" \o ToString(rc)

\* The draft key `${sceneId}:${tokenId}:${actorId}:${ts}:${rc}`.
\* timestamp is Number(data.timestamp ?? 0), a number that may be NaN.
buildDraftKey(speaker, timestamp, rollCount) ==
    LET sp == IF speaker = Null
              THEN [scene |-> Missing, token |-> Missing, actor |-> Missing]
              ELSE speaker
        ts == IF timestamp.fin THEN timestamp.val ELSE 0
        rc == rollCount
    IN  OrEmpty(sp.scene) \o ":" \o OrEmpty(sp.token) \o ":"
          \o OrEmpty(sp.actor) \o ":" \o ToString(ts) \o ":" \o ToString(rc)

\* Array.isArray(data?.rolls) ? data.rolls.length : 0, with the rolls
\* field of a message given as [isArray, length].
RollCount(data) == IF data.rolls.isArray THEN data.rolls.length ELSE 0

\* The draft key of a message draft or of a created message.
DraftKeyOf(data) ==
    buildDraftKey(data.speaker, data.timestamp, RollCount(data))

\* Mutant: an entry exactly TTL_MS old is already dropped.
IsFresh_OffByOne(e) == now - e.createdAt < TTL_MS

\* now - e.createdAt <= state.TTL_MS
IsFresh(e) == now - e.createdAt <= TTL_MS

\* map.get(k) ?? []
QueueOf(map, k) == IF k \in DOMAIN map THEN map[k] ELSE <<>>

MapSet(map, k, v) ==
    [x \in DOMAIN map \cup {k} |-> IF x = k THEN v ELSE map[x]]

MapDelete(map, k) == [x \in DOMAIN map \ {k} |-> map[x]]

\* Mutant: a queue left empty by the sweep keeps its key.
PruneQueues_KeepEmpty(queues) ==
    [k \in DOMAIN queues |-> SelectSeq(queues[k], IsFresh)]

\* prune(state), the draft queues: keep the fresh entries of every queue
\* and delete the keys whose queue has none left.
PruneQueues(queues) ==
    LET fresh(k) == SelectSeq(queues[k], IsFresh)
    IN  [k \in {x \in DOMAIN queues : fresh(x) # <<>>} |-> fresh(k)]

\* prune(state), the message-id map.
PruneIds(byId) ==
    [i \in {x \in DOMAIN byId : ~(now - byId[x].createdAt > TTL_MS)} |->
        byId[i]]

\* Mutant: on overflow the oldest entries are kept.
TrimQueue_KeepOldest(queue) ==
    IF Len(queue) > MAX_QUEUE_PER_KEY
    THEN SubSeq(queue, 1, MAX_QUEUE_PER_KEY) ELSE queue

\* queue.splice(0, queue.length - MAX_QUEUE_PER_KEY) when over the cap
TrimQueue(queue) ==
    IF Len(queue) > MAX_QUEUE_PER_KEY
    THEN SubSeq(queue, Len(queue) - MAX_QUEUE_PER_KEY + 1, Len(queue))
    ELSE queue

\* A diceTypes argument: [isArray, items].  The copy [...diceTypes] made
\* for an entry is a new array; serial is its identity.
CacheEntry(draftDiceTypes, serial) ==
    [createdAt |-> now,
     diceTypes |->
         IF draftDiceTypes.isArray THEN draftDiceTypes.items ELSE <<>>,
     serial |-> serial]

\* What a cache call is remembered by: the operation, the draft key and
\* message id it was made for, the entry it moved or returned (Null on a
\* miss) and the value it returned.
CacheCall(op, key, id, entry, ret) ==
    [kind |-> "call", op |-> op, key |-> key, id |-> id,
     entry |-> entry, ret |-> ret]

cacheDiceTypesForMessageDraft(data, draftDiceTypes) ==
    LET queues == PruneQueues(draftQueueByKey)
        key == DraftKeyOf(data)
        entry == CacheEntry(draftDiceTypes, nextSerial)
        queue == TrimQueue(Append(QueueOf(queues, key), entry))
    IN  /\ draftQueueByKey' = MapSet(queues, key, queue)
        /\ diceTypesByMessageId' = PruneIds(diceTypesByMessageId)
        /\ nextSerial' = nextSerial + 1
        /\ cacheCall' = CacheCall("cache", key, Missing, entry, Null)

\* Mutant: the newest queued entry is moved instead of the oldest.
StashPick_Newest(queue) ==
    [entry |-> queue[Len(queue)], rest |-> SubSeq(queue, 1, Len(queue) - 1)]

\* const entry = queue.shift()
StashPick(queue) == [entry |-> Head(queue), rest |-> Tail(queue)]

stashDiceTypesForCreatedMessage(message) ==
    LET queues == PruneQueues(draftQueueByKey)
        byId == PruneIds(diceTypesByMessageId)
        key == DraftKeyOf(message)
        queue == QueueOf(queues, key)
    IN  IF queue = <<>>
        THEN /\ draftQueueByKey' = queues
             /\ diceTypesByMessageId' = byId
             /\ cacheCall' = CacheCall("stash", key, message.id, Null, Null)
             /\ UNCHANGED nextSerial
        ELSE LET pick == StashPick(queue)
             IN  /\ draftQueueByKey' =
                        IF pick.rest = <<>> THEN MapDelete(queues, key)
                        ELSE MapSet(queues, key, pick.rest)
                 /\ diceTypesByMessageId' =
                        IF message.id = Missing THEN byId
                        ELSE MapSet(byId, message.id,
                                    [pick.entry EXCEPT !.createdAt = now])
                 /\ cacheCall' =
                        CacheCall("stash", key, message.id, pick.entry, Null)
                 /\ UNCHANGED nextSerial

\* Mutant: the entry is returned and left in the map.
IdsAfterConsume_NoDelete(byId, messageId) == byId

IdsAfterConsume(byId, messageId) == MapDelete(byId, messageId)

consumeDiceTypesForRenderedMessage(message) ==
    LET byId == PruneIds(diceTypesByMessageId)
        messageId == message.id
        hit == messageId # Missing /\ messageId \in DOMAIN byId
    IN  /\ draftQueueByKey' = PruneQueues(draftQueueByKey)
        /\ diceTypesByMessageId' =
               IF hit THEN IdsAfterConsume(byId, messageId) ELSE byId
        /\ cacheCall' =
               IF hit
               THEN CacheCall("consume", <<>>, messageId, byId[messageId],
                              [kind |-> "array",
                               items |-> byId[messageId].diceTypes,
                               serial |-> byId[messageId].serial])
               ELSE CacheCall("consume", <<>>, messageId, Null, Null)
        /\ UNCHANGED nextSerial

\* Message data seen by the hooks: [speaker, timestamp, rolls, id].
MessageData(speaker, timestamp, rollsField, id) ==
    [speaker |-> speaker, timestamp |-> timestamp, rolls |-> rollsField,
     id |-> id]

\* Three message shapes.  The second and the third differ in every field
\* and still build the same draft key, through the defaults of the key.
\* No draft of the first shape is cached: it is a message of another
\* pipeline, which finds nothing under its key.
RollMessage(id) ==
    MessageData([scene |-> "s1", token |-> "t1", actor |-> "a1"],
                Num(100), [isArray |-> TRUE, length |-> 2], id)

BareMessage(id) ==
    MessageData(Null, NaN, [isArray |-> FALSE, length |-> 0], id)

EmptyMessage(id) ==
    MessageData([scene |-> Missing, token |-> Missing, actor |-> Missing],
                Num(0), [isArray |-> TRUE, length |-> 0], id)

\* (data, diceTypes) pairs handed to cacheDiceTypesForMessageDraft: two
\* drafts that differ in every field and build the same draft key, each
\* with the diceTypes array computed for it.
DraftInputs ==
    { [data |-> BareMessage(Missing),
       diceTypes |-> [isArray |-> TRUE, items |-> <<"fate", "base">>]],
      [data |-> EmptyMessage(Missing),
       diceTypes |-> [isArray |-> TRUE, items |-> <<"fate", "base">>]] }

MessageIds == {"m1", "m2"}

\* Created messages: of another pipeline, and of a cached draft with an
\* id and without one.
CreatedMessages ==
    { RollMessage(i) : i \in MessageIds }
        \cup { EmptyMessage(i) : i \in MessageIds \cup {Missing} }

RenderedMessages == { RollMessage(i) : i \in MessageIds \cup {Missing} }

\* preCreateChatMessage: the tagging hook caches the diceTypes of a draft.
CacheDraft ==
    /\ nextSerial <= MaxEnqueues
    /\ \E d \in DraftInputs :
           cacheDiceTypesForMessageDraft(d.data, d.diceTypes)
    /\ UNCHANGED <<storeVars, wodCfg, tailVars, tenVars, outcomeVars, diceVars,
                   chatVars, metaVars, flowVars>>

\* createChatMessage: the message now has its id.
StashCreated ==
    /\ \E m \in CreatedMessages : stashDiceTypesForCreatedMessage(m)
    /\ UNCHANGED <<storeVars, wodCfg, tailVars, tenVars, outcomeVars, diceVars,
                   chatVars, metaVars, flowVars>>

\* renderChatMessageHTML
ConsumeRendered ==
    /\ \E m \in RenderedMessages : consumeDiceTypesForRenderedMessage(m)
    /\ UNCHANGED <<storeVars, wodCfg, tailVars, tenVars, outcomeVars, diceVars,
                   chatVars, metaVars, flowVars>>

CacheClockTick ==
    /\ \E d \in CacheTickSteps : Tick(d)
    /\ UNCHANGED <<wodCfg, tailVars, tenVars, outcomeVars, diceVars, laterVars>>

CacheNext ==
    \/ CacheDraft
    \/ StashCreated
    \/ ConsumeRendered
    \/ CacheClockTick

SpecCache == Init /\ [][CacheNext]_vars

(***************************************************************************)
(* Claims about the dice-types cache, checked under SpecCache.             *)
(***************************************************************************)
\* A step of SpecCache that is a call of one of the three cache functions
\* (the clock does not move during a call).
CacheStep(op) == now' = now /\ cacheCall'.op = op

\* The entries of a queue that are not older than TTL_MS at the call.
NotExpired(queue) ==
    SelectSeq(queue, LAMBDA e : now - e.createdAt <= TTL_MS)

\* The last n elements of a sequence, in their order.
LastN(seq, n) ==
    IF Len(seq) <= n THEN seq ELSE SubSeq(seq, Len(seq) - n + 1, Len(seq))

\* C13: after any cacheDiceTypesForMessageDraft call every queue holds at
\* most MAX_QUEUE_PER_KEY = 5 entries, and the queue of the call's key is
\* made of the most recently enqueued entries in their enqueue order: the
\* last five of the unexpired queue with the new entry appended.
C13_BoundedDraftQueue ==
    [][CacheStep("cache") =>
          LET key == cacheCall'.key
              all == Append(NotExpired(QueueOf(draftQueueByKey, key)),
                            cacheCall'.entry)
          IN  /\ \A k \in DOMAIN draftQueueByKey' :
                     Len(draftQueueByKey'[k]) <= 5
              /\ cacheCall'.entry.serial = nextSerial
              /\ key \in DOMAIN draftQueueByKey'
              /\ draftQueueByKey'[key] = LastN(all, 5)]_vars

\* Seven drafts were enqueued under one key and nothing was stashed: the
\* queue holds the third to the seventh, the first two were dropped.
C13_Witness ==
    /\ cacheCall # Null /\ cacheCall.op = "cache"
    /\ nextSerial = 8
    /\ cacheCall.key \in DOMAIN draftQueueByKey
    /\ LET q == draftQueueByKey[cacheCall.key]
       IN  /\ Len(q) = 5
           /\ \A i \in 1..5 : q[i].serial = i + 2

\* The serials (identities) of the payloads held in the message-id map.
StashedSerials(byId) == {byId[i].serial : i \in DOMAIN byId}

\* C14: stashDiceTypesForCreatedMessage takes the oldest non-expired entry
\* queued under the message's draft key off the queue and stores its
\* diceTypes under message.id; of two stashes in a row for one key the
\* later receives a later-enqueued payload; and no payload is held under
\* two message ids or both under an id and in a queue.
C14_FifoRekeying ==
    [][CacheStep("stash") =>
          LET key == cacheCall'.key
              id == cacheCall'.id
              q == NotExpired(QueueOf(draftQueueByKey, key))
          IN  /\ q # <<>> =>
                    /\ cacheCall'.entry = q[1]
                    /\ QueueOf(draftQueueByKey', key) = Tail(q)
                    /\ id # Missing =>
                          /\ id \in DOMAIN diceTypesByMessageId'
                          /\ diceTypesByMessageId'[id].diceTypes
                                 = q[1].diceTypes
                          /\ diceTypesByMessageId'[id].serial = q[1].serial
              /\ (/\ cacheCall # Null /\ cacheCall.op = "stash"
                  /\ cacheCall.key = key
                  /\ cacheCall.entry # Null /\ cacheCall'.entry # Null)
                    => cacheCall'.entry.serial > cacheCall.entry.serial
              /\ \A i, j \in DOMAIN diceTypesByMessageId' :
                     i # j => diceTypesByMessageId'[i].serial
                                  # diceTypesByMessageId'[j].serial
              /\ \A k \in DOMAIN draftQueueByKey' :
                     \A n \in 1..Len(draftQueueByKey'[k]) :
                         draftQueueByKey'[k][n].serial
                             \notin StashedSerials(diceTypesByMessageId')]_vars

\* Three drafts were enqueued under one key and two messages stashed: the
\* first message holds the first payload, the second the second, and the
\* third payload is still queued.
C14_Witness ==
    /\ cacheCall # Null /\ cacheCall.op = "stash"
    /\ DOMAIN diceTypesByMessageId = {"m1", "m2"}
    /\ diceTypesByMessageId["m1"].serial = 1
    /\ diceTypesByMessageId["m2"].serial = 2
    /\ cacheCall.id = "m2"
    /\ cacheCall.key \in DOMAIN draftQueueByKey
    /\ draftQueueByKey[cacheCall.key][1].serial = 3

\* C32: whenever the last cache call is a stash that took an entry off a
\* draft queue, that entry is stored in the message-id map under the
\* message's id, where a consume for that message finds it: no stash call
\* removes a queued entry without storing it.
C32_StashNeverLosesPayload ==
    (cacheCall # Null /\ cacheCall.op = "stash" /\ cacheCall.entry # Null)
        => /\ cacheCall.id # Missing
           /\ cacheCall.id \in DOMAIN diceTypesByMessageId
           /\ diceTypesByMessageId[cacheCall.id].serial
                  = cacheCall.entry.serial
           /\ diceTypesByMessageId[cacheCall.id].diceTypes
                  = cacheCall.entry.diceTypes

\* The message-id map holds an entry for id that has not expired.
Stashed(id) ==
    /\ id \in DOMAIN diceTypesByMessageId
    /\ now - diceTypesByMessageId[id].createdAt <= TTL_MS

\* C15: consumeDiceTypesForRenderedMessage returns the diceTypes stashed
\* under message.id and removes the entry; a second call for the same id
\* returns null; and a call for a message with no id or with no stashed
\* entry returns null.
C15_OneShotRead ==
    [][CacheStep("consume") =>
          LET id == cacheCall'.id
          IN  /\ (id # Missing /\ Stashed(id))
                    => /\ cacheCall'.ret # Null
                       /\ cacheCall'.ret.items
                              = diceTypesByMessageId[id].diceTypes
                       /\ cacheCall'.ret.serial
                              = diceTypesByMessageId[id].serial
              /\ (id = Missing \/ ~Stashed(id)) => cacheCall'.ret = Null
              /\ id \notin DOMAIN diceTypesByMessageId'
              /\ (/\ cacheCall # Null /\ cacheCall.op = "consume"
                  /\ cacheCall.id = id)
                    => cacheCall'.ret = Null]_vars

\* A consume returned the array stashed under m1 and m1 is gone.
C15_Witness ==
    /\ cacheCall # Null /\ cacheCall.op = "consume"
    /\ cacheCall.id = "m1"
    /\ cacheCall.ret # Null
    /\ cacheCall.ret.items = <<"fate", "base">>
    /\ "m1" \notin DOMAIN diceTypesByMessageId

\* C16: right after any of the three cache calls returns, no entry of the
\* draft queues or of the message-id map is older than TTL_MS = 60000 and
\* no key maps to an empty queue.
C16_SweptAfterEveryCall ==
    [][(now' = now) =>
          /\ \A k \in DOMAIN draftQueueByKey' :
                 /\ draftQueueByKey'[k] # <<>>
                 /\ \A n \in 1..Len(draftQueueByKey'[k]) :
                        now' - draftQueueByKey'[k][n].createdAt <= 60000
          /\ \A i \in DOMAIN diceTypesByMessageId' :
                 now' - diceTypesByMessageId'[i].createdAt <= 60000]_vars

\* Two drafts were enqueued, the first before the clock passed the TTL
\* and the second after: the call that enqueued the second left only the
\* second in the queue.
C16_Witness ==
    /\ cacheCall # Null /\ cacheCall.op = "cache"
    /\ nextSerial = 3
    /\ now = TTL_MS + 1
    /\ diceTypesByMessageId = EmptyMap
    /\ draftQueueByKey[cacheCall.key] = <<cacheCall.entry>>
    /\ cacheCall.entry.serial = 2

\* C17 as stated: when no entry is queued under the created message's
\* draft key, stashDiceTypesForCreatedMessage leaves the draft queues and
\* the message-id map unchanged.
C17_MissIsNoOp ==
    [][(CacheStep("stash")
           /\ QueueOf(draftQueueByKey, cacheCall'.key) = <<>>)
          => /\ draftQueueByKey' = draftQueueByKey
             /\ diceTypesByMessageId' = diceTypesByMessageId]_vars

\* C17 (amended): a stash miss adds nothing to the message-id map and
\* changes the two maps only by the TTL sweep every cache call starts
\* with: each queue keeps exactly its entries not older than TTL_MS (a
\* key left with none is dropped) and the message-id map keeps exactly
\* its entries not older than TTL_MS.
C17_MissOnlySweeps ==
    [][(CacheStep("stash")
           /\ NotExpired(QueueOf(draftQueueByKey, cacheCall'.key)) = <<>>)
          => /\ cacheCall'.entry = Null
             /\ DOMAIN draftQueueByKey' =
                    {k \in DOMAIN draftQueueByKey :
                        NotExpired(draftQueueByKey[k]) # <<>>}
             /\ \A k \in DOMAIN draftQueueByKey' :
                    draftQueueByKey'[k] = NotExpired(draftQueueByKey[k])
             /\ DOMAIN diceTypesByMessageId' =
                    {i \in DOMAIN diceTypesByMessageId : Stashed(i)}
             /\ \A i \in DOMAIN diceTypesByMessageId' :
                    diceTypesByMessageId'[i] = diceTypesByMessageId[i]]_vars

\* A stash missed (a message of a key nothing is queued under) while an
\* entry exactly TTL_MS old was queued under another key and an entry was
\* held in the message-id map: both are still there.
C17_Witness ==
    /\ cacheCall # Null /\ cacheCall.op = "stash"
    /\ cacheCall.entry = Null
    /\ cacheCall.key \notin DOMAIN draftQueueByKey
    /\ \E k \in DOMAIN draftQueueByKey :
           now - draftQueueByKey[k][1].createdAt = TTL_MS
    /\ diceTypesByMessageId # EmptyMap

(***************************************************************************)
(* Fate metadata on chat messages.  The tagging hook                       *)
(* (fate/inject-fate-use-checkbox.js) writes the dice types to the message *)
(* being created; the two renderChatMessageHTML hooks                      *)
(* (fate/replace-fate-dice-in-chat.js and the insert-fate-result hook in   *)
(* fate/get-fate-permanent.js) read them back, each with its own           *)
(* extractFateMeta.                                                        *)
(***************************************************************************)
\* The default of consumeLastFateRollContainer's maxAgeMs parameter.
FateMaxAgeMs == 3000

\* Renders of one message by one hook.
MaxRenders == 2

\* A null cache id in the value extractFateMeta returns.
NullId == "null"

\* A JS array; a property that is absent is Null.
Arr(items) == [kind |-> "array", items |-> items]
IsArray(v) == v.kind = "array"

\* roll.options of a Roll the module did not touch (versions absent: 0).
NoRollOptions ==
    [rbFateDiceTypes |-> Null, rbFateDiceTypesVersion |-> 0,
     rbFateMetaVersion |-> 0, rbFateCacheId |-> Missing,
     colorset |-> Missing]

\* flags[MODULE_ID] without Fate metadata (versions absent: 0).
NoModuleFlags ==
    [diceTypes |-> Null, diceTypesVersion |-> 0, rbFateMetaVersion |-> 0,
     rbFateCacheId |-> Missing, cacheId |-> Missing,
     rollContextVersion |-> 0]

\* ctx.lastContainer = null; ctx.lastContainerAtMs = 0
NoLastFate == [lastContainer |-> Null, lastContainerAtMs |-> 0]

\* Mutant: the container is returned whatever its age.
consumeLastFateRollContainer_AnyAge(ctx, maxAgeMs) == ctx.lastContainer

\* What consumeLastFateRollContainer(maxAgeMs) returns; the reference is
\* cleared whatever it returns.
consumeLastFateRollContainer(ctx, maxAgeMs) ==
    IF ctx.lastContainer = Null \/ now - ctx.lastContainerAtMs > maxAgeMs
    THEN Null
    ELSE ctx.lastContainer

\* rolls.map((r, idx) => ...): every roll gets the version and the cache
\* id, the first one the whole diceTypes array, a Fate die its colorset.
PatchedRoll(r, idx, dts, cacheId) ==
    [r EXCEPT !.options =
        [@ EXCEPT !.rbFateMetaVersion = 1,
                  !.rbFateCacheId = cacheId,
                  !.rbFateDiceTypes = IF idx = 1 THEN Arr(dts) ELSE @,
                  !.rbFateDiceTypesVersion = IF idx = 1 THEN 1 ELSE @,
                  !.colorset = IF idx <= Len(dts) /\ dts[idx] = "fate"
                               THEN "rb-fate-emerald" ELSE @]]

\* The module flags of the patch: the existing ones with the Fate
\* metadata written over them.
PatchedFlags(existingModuleFlags, dts, cacheId) ==
    [existingModuleFlags EXCEPT !.diceTypes = Arr(dts),
                                !.diceTypesVersion = 1,
                                !.rbFateMetaVersion = 1,
                                !.rbFateCacheId = cacheId]

\* Mutant: the dice types are written to the flags only.
TaggedMessage_FlagsOnly(msg, dts, cacheId) ==
    [msg EXCEPT !.flags = PatchedFlags(@, dts, cacheId)]

\* doc.updateSource({ flags: patchedFlags, rolls: patchedRolls })
TaggedMessage(msg, dts, cacheId) ==
    [rolls |-> [i \in 1..Len(msg.rolls) |->
                   PatchedRoll(msg.rolls[i], i, dts, cacheId)],
     flags |-> PatchedFlags(msg.flags, dts, cacheId)]

\* The preCreateChatMessage handler of registerFateDiceTypeTaggingHook;
\* cacheId is what createCacheId() returns.
registerFateDiceTypeTaggingHook(cacheId) ==
    IF fateEnabled # TRUE \/ Len(doc.rolls) = 0
    THEN UNCHANGED <<lastFate, doc, tagged>>
    ELSE LET c == consumeLastFateRollContainer(lastFate, FateMaxAgeMs)
             dts == IF c = Null THEN <<>>
                    ELSE computeDiceTypesForRollMessage(c, doc.rolls)
         IN  /\ lastFate' = NoLastFate
             /\ IF c = Null \/ Len(dts) = 0
                THEN UNCHANGED <<doc, tagged>>
                ELSE /\ doc' = TaggedMessage(doc, dts, cacheId)
                     /\ tagged' = [diceTypes |-> dts, cacheId |-> cacheId,
                                   doc |-> doc']

\* What the host can do to the metadata while it creates the message.
HostRewrites ==
    {"keep", "dropRollOptions", "emptyRollOptions", "dropFlags",
     "emptyFlags", "dropBoth"}

WithRollOptions(msg, rw) ==
    IF Len(msg.rolls) = 0 \/ rw \in {"keep", "dropFlags", "emptyFlags"}
    THEN msg.rolls
    ELSE IF rw = "emptyRollOptions"
    THEN [msg.rolls EXCEPT ![1].options.rbFateDiceTypes = Arr(<<>>)]
    ELSE [i \in 1..Len(msg.rolls) |->
             [msg.rolls[i] EXCEPT !.options = NoRollOptions]]

WithFlags(msg, rw) ==
    IF rw \in {"dropFlags", "dropBoth"} THEN NoModuleFlags
    ELSE IF rw = "emptyFlags"
    THEN [msg.flags EXCEPT !.diceTypes = Arr(<<>>)]
    ELSE msg.flags

Rewritten(msg, rw) ==
    [rolls |-> WithRollOptions(msg, rw), flags |-> WithFlags(msg, rw)]

\* The value extractFateMeta returns.
FateMeta(dts, source, cacheId) ==
    [diceTypes |-> dts, diceTypesSource |-> source, cacheId |-> cacheId]

\* typeof x === "string" ? x : null, and x ?? null
IdOrNull(x) == IF x = Missing THEN NullId ELSE x

\* message.rolls[0], Null when the message has no roll
Roll0(msg) == IF Len(msg.rolls) > 0 THEN msg.rolls[1] ELSE Null

\* extractFateMeta of replace-fate-dice-in-chat.js
extractFateMeta(msg) ==
    LET roll0 == Roll0(msg)
        optDiceTypes == IF roll0 = Null THEN Null
                        ELSE roll0.options.rbFateDiceTypes
        modFlags == msg.flags
        flagDiceTypes == modFlags.diceTypes
    IN  IF IsArray(optDiceTypes) /\ Len(optDiceTypes.items) > 0
        THEN FateMeta(optDiceTypes, "rollOptions",
                      IdOrNull(roll0.options.rbFateCacheId))
        ELSE IF IsArray(flagDiceTypes) /\ Len(flagDiceTypes.items) > 0
        THEN FateMeta(flagDiceTypes, "flags",
                      IdOrNull(modFlags.rbFateCacheId))
        ELSE FateMeta(Null, "none", NullId)

\* extractFateMeta of the insert-fate-result hook
extractFateMetaForResultLine(msg) ==
    LET roll0 == Roll0(msg)
        optDiceTypes == IF roll0 = Null THEN Null
                        ELSE roll0.options.rbFateDiceTypes
        fromFlags == msg.flags.diceTypes
    IN  IF IsArray(optDiceTypes)
        THEN FateMeta(optDiceTypes, "rolls[0].options.rbFateDiceTypes",
                      IdOrNull(roll0.options.rbFateCacheId))
        ELSE IF IsArray(fromFlags)
        THEN FateMeta(fromFlags, "flags.diceTypes",
                      IdOrNull(msg.flags.cacheId))
        ELSE FateMeta(Null, "none", NullId)

RenderHooks == {"replace", "resultLine"}

ExtractorOf(h, msg) ==
    IF h = "replace" THEN extractFateMeta(msg)
    ELSE extractFateMetaForResultLine(msg)

\* Mutant: a render takes the dice types off the first roll (one-shot).
MessageAfterRender_OneShot(msg) ==
    IF Len(msg.rolls) = 0 THEN msg
    ELSE [msg EXCEPT !.rolls[1].options.rbFateDiceTypes = Null]

\* The render hooks write to the HTML of the message only.
MessageAfterRender(msg) == msg

\* A renderChatMessageHTML handler: it returns before extractFateMeta when
\* Fate is off or the message has no rolls.
RenderHook(h) ==
    /\ renders' = [renders EXCEPT ![h] = @ + 1]
    /\ extracted' = IF fateEnabled # TRUE \/ Len(doc.rolls) = 0
                    THEN extracted
                    ELSE [extracted EXCEPT ![h] = ExtractorOf(h, doc)]
    /\ doc' = MessageAfterRender(doc)
    /\ UNCHANGED <<fateEnabled, lastFate, stage, tagged>>

registerReplaceFateDiceInChatHook == RenderHook("replace")

registerInsertFateResultInChatHook == RenderHook("resultLine")

\* createCacheId() returns a fresh random id.
CacheIds == {"id1", "id2"}

\* The clock advances by less and by more than the container's max age.
MetaTickSteps == {1000, FateMaxAgeMs + 1}

\* Exploding dice off and on.
MetaCfgs == {Null, WodCfg(FALSE, Num(2), FALSE, Num(1), TRUE, "always")}

\* Containers of a roll with one Fate die and one special die.
MetaContainers ==
    {c \in ContainerInputs :
        /\ Len(c.targetlist) <= 1
        /\ c.woundpenalty = Num(0)
        /\ c.numSpecialDices = Num(1)
        /\ c.fateDiceCount = Num(1)
        /\ c.speciality = FALSE}

\* data.rolls of the draft: up to two d10 rolls.
MetaRolls == {rs \in RollsChoices : Len(rs) <= 2}

\* The draft's module flags: none, or the roll context written earlier.
DraftFlags ==
    {NoModuleFlags, [NoModuleFlags EXCEPT !.rollContextVersion = 1]}

Draft(rs, moduleFlags) ==
    [rolls |-> [i \in 1..Len(rs) |->
                   [result |-> rs[i].result, options |-> NoRollOptions]],
     flags |-> moduleFlags]

MetaInit ==
    /\ StoreInit /\ ChatIdle /\ CacheIdle /\ FlowIdle /\ TailIdle
    /\ wodCfg \in MetaCfgs
    /\ tenIn = Null /\ tenOut = Null
    /\ evIn = Null /\ evOut = Null
    /\ container = Null /\ rolls = <<>> /\ diceTypes = Null
    /\ fateEnabled \in BOOLEAN
    /\ lastFate \in {NoLastFate}
                    \cup {[lastContainer |-> c, lastContainerAtMs |-> 0] :
                             c \in MetaContainers}
    /\ doc \in {Draft(rs, f) : rs \in MetaRolls, f \in DraftFlags}
    /\ stage = "draft"
    /\ tagged = Null
    /\ extracted = [h \in RenderHooks |-> Null]
    /\ renders = [h \in RenderHooks |-> 0]

\* Time passes between the roll and the creation of its message.
MetaClockTick ==
    /\ stage = "draft"
    /\ \E d \in MetaTickSteps : Tick(d)
    /\ UNCHANGED <<wodCfg, tailVars, tenVars, outcomeVars, diceVars, laterVars>>

\* preCreateChatMessage
TagDraft ==
    /\ stage = "draft"
    /\ \E id \in CacheIds : registerFateDiceTypeTaggingHook(id)
    /\ stage' = "creating"
    /\ UNCHANGED <<storeVars, wodCfg, tailVars, tenVars, outcomeVars, diceVars,
                   chatVars, cacheVars, flowVars, fateEnabled, extracted, renders>>

\* The host creates the message, keeping or rewriting its metadata.
HostCreate ==
    /\ stage = "creating"
    /\ \E rw \in HostRewrites : doc' = Rewritten(doc, rw)
    /\ stage' = "created"
    /\ UNCHANGED <<storeVars, wodCfg, tailVars, tenVars, outcomeVars, diceVars,
                   chatVars, cacheVars, flowVars, fateEnabled, lastFate, tagged,
                   extracted, renders>>

\* renderChatMessageHTML, replace-fate-dice-in-chat
RenderReplace ==
    /\ stage = "created"
    /\ renders["replace"] < MaxRenders
    /\ registerReplaceFateDiceInChatHook
    /\ UNCHANGED <<storeVars, wodCfg, tailVars, tenVars, outcomeVars, diceVars,
                   chatVars, cacheVars, flowVars>>

\* renderChatMessageHTML, insert-fate-result-in-chat
RenderResultLine ==
    /\ stage = "created"
    /\ renders["resultLine"] < MaxRenders
    /\ registerInsertFateResultInChatHook
    /\ UNCHANGED <<storeVars, wodCfg, tailVars, tenVars, outcomeVars, diceVars,
                   chatVars, cacheVars, flowVars>>

MetaNext ==
    \/ MetaClockTick
    \/ TagDraft
    \/ HostCreate
    \/ RenderReplace
    \/ RenderResultLine

SpecMeta == MetaInit /\ [][MetaNext]_vars

(***************************************************************************)
(* Claims about the Fate metadata, checked under SpecMeta.                 *)
(***************************************************************************)
NonEmptyArray(v) == IsArray(v) /\ Len(v.items) > 0

\* rolls[0].options.rbFateDiceTypes of a message, Null when absent
OptionsChannel(msg) ==
    IF Len(msg.rolls) > 0 THEN msg.rolls[1].options.rbFateDiceTypes
    ELSE Null

\* flags[MODULE_ID].diceTypes of a message, Null when absent
FlagsChannel(msg) == msg.flags.diceTypes

\* C18: whenever a render hook has called its extractFateMeta on the
\* created message, the diceTypes it got are those of
\* rolls[0].options.rbFateDiceTypes when that channel is a non-empty array;
\* when that channel is absent or empty they are those of the module flags,
\* provided the flags carry a non-empty array; when both channels are
\* absent they are null.
C18_OptionsThenFlags ==
    stage = "created" =>
        \A h \in RenderHooks :
            extracted[h] # Null =>
                LET opt == OptionsChannel(doc)
                    flg == FlagsChannel(doc)
                    got == extracted[h].diceTypes
                IN  /\ NonEmptyArray(opt) => got = opt
                    /\ (~NonEmptyArray(opt) /\ NonEmptyArray(flg))
                           => got = flg
                    /\ (opt = Null /\ flg = Null) => got = Null

C20_AttachExtractRoundTrip ==
    tagged # Null =>
        LET written == Arr(tagged.diceTypes)
        IN  /\ stage = "creating" =>
                LET options == doc.rolls[1].options
                IN  /\ options.rbFateDiceTypes = written
                    /\ doc.flags.diceTypes = written
                    /\ options.rbFateDiceTypesVersion = 1
                    /\ options.rbFateMetaVersion = 1
                    /\ doc.flags.diceTypesVersion = 1
                    /\ doc.flags.rbFateMetaVersion = 1
                    /\ options.rbFateCacheId = tagged.cacheId
                    /\ doc.flags.rbFateCacheId = tagged.cacheId
                    /\ extractFateMeta(doc).diceTypes = written
                    /\ extractFateMetaForResultLine(doc).diceTypes = written
            /\ (stage = "created" /\ doc = tagged.doc) =>
                \A h \in RenderHooks :
                    extracted[h] # Null => extracted[h].diceTypes = written

\* C20 witness: a draft of two rolls, one of them a Fate die, was tagged,
\* created as written and rendered by both hooks.
C20_Witness ==
    /\ stage = "created"
    /\ tagged # Null
    /\ doc = tagged.doc
    /\ Len(tagged.diceTypes) = 2
    /\ \E i \in 1..2 : tagged.diceTypes[i] = "fate"
    /\ \A h \in RenderHooks : extracted[h] # Null

(***************************************************************************)
(* The dialog roll methods patched for roll context                        *)
(* (roll-context/patch-roll-dialogs-roll-context.js).  A call runs the     *)
(* capture inside try/catch, then `return await original.apply(this,       *)
(* args)`.                                                                 *)
(***************************************************************************)
\* The argument lists a dialog roll method is called with.
DialogArgs == {<<>>, <<"event">>}

\* How the upstream roll method can settle.
UpstreamResults ==
    { [kind |-> "returned", value |-> "r1"],
      [kind |-> "returned", value |-> "r2"],
      [kind |-> "threw", value |-> "e1"] }

\* Where the try block can be left: at its end, or by an exception raised
\* before or after the store write (a selector, createRollTraceId, debug).
CaptureRuns == {"completes", "throwsBeforeWrite", "throwsAfterWrite"}

\* What the try block did: "stored", "skipped" (no user id) or "threw".
CaptureOf(userId, run) ==
    IF run # "completes" THEN "threw"
    ELSE IF userId = NoUserId THEN "skipped"
    ELSE "stored"

\* Mutant: an exception of the capture ends the call before the upstream
\* method is invoked.
UpstreamCalls_BlockedByThrow(args, capture) ==
    IF capture = "threw" THEN <<>> ELSE <<args>>

\* original.apply(this, args) after the try/catch: the argument lists the
\* upstream method was invoked with by this call.
UpstreamCalls(args, capture) == <<args>>

\* return await original.apply(this, args)
PatchedOutcome(result) == result

\* The synchronous part of the patched method, up to the await.
patchedRollMethod(args, userId, run, ctx) ==
    /\ IF userId # NoUserId /\ run # "throwsBeforeWrite"
       THEN setPendingRollContext(userId, ctx)
       ELSE UNCHANGED storeVars
    /\ dlg' = [args |-> args,
               capture |-> CaptureOf(userId, run),
               upstream |-> UpstreamCalls(args, CaptureOf(userId, run)),
               settled |-> Null,
               outcome |-> Null]

\* A roll dialog is confirmed: its patched roll method starts.
DialogCall ==
    /\ dlg = Null
    /\ \E args \in DialogArgs, userId \in {GameUserId, NoUserId},
          run \in CaptureRuns, c \in CtxInputs :
           patchedRollMethod(args, userId, run, c)
    /\ UNCHANGED <<wodCfg, tailVars, tenVars, outcomeVars, diceVars, chatVars,
                   cacheVars, metaVars, recomputed, keyIn, fateCtx, calls,
                   containers, created>>

\* The upstream method settles and the patched method with it.
DialogUpstreamSettles ==
    /\ dlg # Null
    /\ dlg.upstream # <<>>
    /\ dlg.settled = Null
    /\ \E r \in UpstreamResults :
           dlg' = [dlg EXCEPT !.settled = r, !.outcome = PatchedOutcome(r)]
    /\ UNCHANGED <<storeVars, wodCfg, tailVars, tenVars, outcomeVars, diceVars,
                   chatVars, cacheVars, metaVars, recomputed, keyIn, fateCtx,
                   calls, containers, created>>

\* The call is over; the next roll can start.
DialogCallOver ==
    /\ dlg # Null
    /\ dlg.outcome # Null \/ dlg.upstream = <<>>
    /\ dlg' = Null
    /\ UNCHANGED <<storeVars, wodCfg, tailVars, tenVars, outcomeVars, diceVars,
                   chatVars, cacheVars, metaVars, recomputed, keyIn, fateCtx,
                   calls, containers, created>>

DialogClockTick ==
    /\ \E d \in ChatTickSteps : Tick(d)
    /\ UNCHANGED <<wodCfg, tailVars, tenVars, outcomeVars, diceVars, laterVars>>

DialogNext ==
    \/ DialogCall
    \/ DialogUpstreamSettles
    \/ DialogCallOver
    \/ DialogClockTick

SpecDialog == Init /\ [][DialogNext]_vars

(***************************************************************************)
(* Claims about the context patch, checked under SpecDialog.               *)
(***************************************************************************)
\* C21: every call of a roll method patched for roll context invokes the
\* upstream method exactly once, with the arguments of the call, whether
\* the capture stored a context, was skipped for want of a user id or
\* threw; and what the call gives its caller is what the upstream method
\* returned or threw.
C21_CaptureNeverBlocksRoll ==
    dlg # Null =>
        /\ Len(dlg.upstream) = 1
        /\ dlg.upstream[1] = dlg.args
        /\ dlg.settled # Null => dlg.outcome = dlg.settled
        /\ dlg.settled = Null => dlg.outcome = Null

\* C21 witness: the capture threw before it wrote to the store, the
\* upstream method ran with the call's argument and returned.
C21_Witness ==
    /\ dlg # Null
    /\ dlg.capture = "threw"
    /\ dlg.args = <<"event">>
    /\ pendingByUserId[GameUserId] = Null
    /\ dlg.outcome # Null
    /\ dlg.outcome.kind = "returned"

(***************************************************************************)
(* Recomputation of the Evil Botches result: every render of a roll        *)
(* message calls computeEvilBotchesResult again with the die values and    *)
(* the roll context of the message.                                        *)
(***************************************************************************)
\* Mutant: the computation takes the first die off the array it is given.
ArgsAfterCompute_ConsumesDice(in) ==
    IF Len(in.dieValues) = 0 THEN in
    ELSE [in EXCEPT !.dieValues = Tail(@)]

\* computeEvilBotchesResult only iterates over dieValues and reads its
\* other arguments: the argument object is as it was.
ArgsAfterCompute(in) == in

\* One more computation for the same message.
Recompute ==
    /\ Len(recomputed) < MaxRenders
    /\ evOut' = computeEvilBotchesResult(evIn)
    /\ recomputed' = Append(recomputed, evOut')
    /\ evIn' = ArgsAfterCompute(evIn)
    /\ UNCHANGED <<storeVars, wodCfg, tailVars, tenVars, diceVars, chatVars, cacheVars,
                   metaVars, dlg, keyIn, fateCtx, calls, containers,
                   created>>

RecomputeNext == Recompute

SpecRecompute == OutcomeInit /\ [][RecomputeNext]_vars

(***************************************************************************)
(* Claims about the recomputation, checked under SpecRecompute.            *)
(***************************************************************************)
\* The parts of a result the claim compares.
SameResult(a, b) ==
    /\ a.ones = b.ones
    /\ a.diceSuccesses = b.diceSuccesses
    /\ a.successesBeforeOnes = b.successesBeforeOnes
    /\ a.outcome.kind = b.outcome.kind
    /\ a.outcome.value = b.outcome.value

KeySpeakers ==
    { Null,
      [scene |-> Missing, token |-> Missing, actor |-> Missing],
      [scene |-> "s1", token |-> "t1", actor |-> "a1"],
      [scene |-> "s1", token |-> Missing, actor |-> "a1"],
      [scene |-> "t1", token |-> "s1", actor |-> "a1"] }

\* Number(message.timestamp ?? 0)
KeyTimestamps == {NaN, Num(0), Num(100)}

\* message.rolls: not an array, no roll, two rolls.
KeyRolls ==
    { [isArray |-> FALSE, length |-> 0],
      [isArray |-> TRUE, length |-> 0],
      [isArray |-> TRUE, length |-> 2] }

\* The draft (no id yet) and the created message of one check.
KeyPairs ==
    { [draft |-> MessageData(sp1, ts1, r1, Missing),
       message |-> MessageData(sp2, ts2, r2, "m1")] :
        sp1 \in KeySpeakers, ts1 \in KeyTimestamps, r1 \in KeyRolls,
        sp2 \in KeySpeakers, ts2 \in KeyTimestamps, r2 \in KeyRolls }

KeyInit ==
    /\ StoreInit /\ ChatIdle /\ CacheIdle /\ MetaIdle
    /\ wodCfg = Null
    /\ tenIn = Null /\ tenOut = Null
    /\ evIn = Null /\ evOut = Null
    /\ container = Null /\ rolls = <<>> /\ diceTypes = Null
    /\ TailIdle
    /\ dlg = Null /\ recomputed = <<>> /\ fateCtx = Null
    /\ calls = Null /\ containers = Null /\ created = <<>>
    /\ keyIn \in KeyPairs

\* preCreateChatMessage: the draft's diceTypes are cached, once.
KeyCacheDraft ==
    /\ nextSerial = 1
    /\ cacheDiceTypesForMessageDraft(
           keyIn.draft, [isArray |-> TRUE, items |-> <<"fate", "base">>])
    /\ UNCHANGED <<storeVars, wodCfg, tailVars, tenVars, outcomeVars, diceVars,
                   chatVars, metaVars, flowVars>>

\* createChatMessage for the created message
KeyStashCreated ==
    /\ stashDiceTypesForCreatedMessage(keyIn.message)
    /\ UNCHANGED <<storeVars, wodCfg, tailVars, tenVars, outcomeVars, diceVars,
                   chatVars, metaVars, flowVars>>

KeyClockTick ==
    /\ \E d \in CacheTickSteps : Tick(d)
    /\ UNCHANGED <<wodCfg, tailVars, tenVars, outcomeVars, diceVars, laterVars>>

KeyNext ==
    \/ KeyCacheDraft
    \/ KeyStashCreated
    \/ KeyClockTick

SpecKey == KeyInit /\ [][KeyNext]_vars

(***************************************************************************)
(* Claims about the correlation key, checked under SpecKey.                *)
(***************************************************************************)
RECURSIVE JoinWith(_, _)
\* The elements of a sequence of strings with sep between them.
JoinWith(parts, sep) ==
    IF Len(parts) = 0 THEN ""
    ELSE IF Len(parts) = 1 THEN parts[1]
    ELSE parts[1] \o sep \o JoinWith(Tail(parts), sep)

\* The speaker triple (scene, token, actor) of a message, a missing field
\* being Missing.
SpeakerTriple(m) ==
    IF m.speaker = Null THEN <<Missing, Missing, Missing>>
    ELSE <<m.speaker.scene, m.speaker.token, m.speaker.actor>>

\* The number of rolls of a message.
NumberOfRolls(m) == IF m.rolls.isArray THEN m.rolls.length ELSE 0

\* The key the claim describes for a message.
ClaimedKey(m) ==
    LET triple == SpeakerTriple(m)
        text(x) == IF x = Missing THEN "" ELSE x
    IN  JoinWith(<<text(triple[1]), text(triple[2]), text(triple[3]),
                   ToString(IF m.timestamp.fin THEN m.timestamp.val ELSE 0),
                   ToString(NumberOfRolls(m))>>, ":")

\* A draft and a message agree on speaker triple, timestamp and rolls.
Agree(d, m) ==
    /\ SpeakerTriple(d) = SpeakerTriple(m)
    /\ d.timestamp = m.timestamp
    /\ NumberOfRolls(d) = NumberOfRolls(m)

\* C23: the key a cache call builds for the draft, and the key a stash call
\* builds for the created message, is scene:token:actor:timestamp:rollCount
\* with the empty string for a missing speaker field and 0 for a timestamp
\* that is not finite; and when the draft and the created message agree on
\* speaker triple, timestamp and number of rolls, a stash of the message
\* while the draft's entry is queued and not expired finds that entry and
\* stores it under message.id.
C23_CorrelationKey ==
    [][/\ CacheStep("cache") => cacheCall'.key = ClaimedKey(keyIn.draft)
       /\ CacheStep("stash") => cacheCall'.key = ClaimedKey(keyIn.message)
       /\ (/\ CacheStep("stash")
           /\ Agree(keyIn.draft, keyIn.message)
           /\ NotExpired(QueueOf(draftQueueByKey,
                                 ClaimedKey(keyIn.draft))) # <<>>)
             => LET q == NotExpired(QueueOf(draftQueueByKey,
                                            ClaimedKey(keyIn.draft)))
                IN  /\ cacheCall'.entry = q[1]
                    /\ keyIn.message.id \in DOMAIN diceTypesByMessageId'
                    /\ diceTypesByMessageId'[keyIn.message.id].serial
                           = q[1].serial]_vars

\* C23 witness: a draft of two rolls with a speaker without token and a
\* created message agreeing with it; the draft's entry was found by the
\* stash of the message under the key "s1::a1:100:2".
C23_Witness ==
    /\ keyIn # Null
    /\ keyIn.draft.speaker = [scene |-> "s1", token |-> Missing,
                              actor |-> "a1"]
    /\ Agree(keyIn.draft, keyIn.message)
    /\ cacheCall # Null
    /\ cacheCall.op = "stash"
    /\ cacheCall.key = "s1::a1:100:2"
    /\ keyIn.message.id \in DOMAIN diceTypesByMessageId
    /\ draftQueueByKey = EmptyMap

(***************************************************************************)
(* The Fate context: the dialog roll methods patched for Fate              *)
(* (src/unnamed/part_011) set or clear a global context before they call   *)
(* the upstream roll method; the numDices accessor patched onto            *)
(* DiceRollContainer (src/unnamed/part_015) adds the Fate bonus to one     *)
(* assignment and remembers the container; the tagging hook consumes the   *)
(* remembered container when the next roll message is created.             *)
(***************************************************************************)
\* The dialogs whose roll method is called, once each.
Dialogs == {1, 2}

\* A container that belongs to no dialog call.
Outside == 0

\* getFatePermanent(actor): no permanent Fate, or some.
FatePermanentChoices == {0, 2}

\* Values assigned to numDices: the constructor's 0 and a dice pool.
AssignedValues == {Num(0), Num(3)}

\* The context getGlobalCtx() creates, and what clearFateContext() leaves.
\* applied counts the bonuses given since the last setNextFateContext.
FateCtx(enabled, fateBonus, consumed, applied) ==
    [enabled |-> enabled, fateBonus |-> fateBonus, consumeOnce |-> TRUE,
     consumed |-> consumed, applied |-> applied]

clearFateContext(ctx) == FateCtx(FALSE, 0, FALSE, ctx.applied)

\* ctx.enabled = shouldEnableFate() === true;
\* ctx.fateBonus = Math.max(0, parseInt(fateBonus) || 0)
setNextFateContext(ctx, fateBonus) ==
    FateCtx(fateEnabled = TRUE, Max(0, fateBonus), FALSE, 0)

\* The container reference kept in ctx.lastContainer.
ContainerRef(c) == [kind |-> "ref", id |-> c]

\* One numDices assignment: the container, its origin, the parsed value
\* and the value stored.
Assignment(c, origin, v, stored) ==
    [c |-> c, origin |-> origin, value |-> v, numDices |-> stored]

\* No assignment was made yet, no container carries a Fate dice count
\* (an absent __rusbarFateDiceCount is 0).
NoAssignments ==
    [last |-> Null, fateDiceCount |-> [c \in Dialogs \cup {Outside} |-> 0]]

\* Mutant: no origin is excluded.
IsExcluded_None(origin) == FALSE

\* origin === "damage" || origin === "initiative"
IsExcluded(origin) == origin \in {"damage", "initiative"}

\* The condition under which the accessor takes the Fate branch.
FateGate(ctx, origin, v) ==
    /\ ctx.enabled = TRUE
    /\ ctx.fateBonus > 0
    /\ v > 0 /\ origin # ""
    /\ (ctx.consumeOnce # TRUE \/ ctx.consumed # TRUE)

\* Mutant: the context is not marked consumed.
CtxAfterAssign_NotConsumed(ctx, origin, v) ==
    IF FateGate(ctx, origin, v) /\ ~IsExcluded(origin)
    THEN [ctx EXCEPT !.applied = Min(@ + 1, 2)]
    ELSE ctx

\* if (ctx.consumeOnce === true) ctx.consumed = true
CtxAfterAssign(ctx, origin, v) ==
    IF FateGate(ctx, origin, v)
    THEN [ctx EXCEPT !.consumed = TRUE,
                     !.applied = IF IsExcluded(origin) THEN @ ELSE @ + 1]
    ELSE ctx

\* The numDices setter on container c, whose origin is origin.
numDicesSet(c, origin, value) ==
    LET v == IF value.fin THEN value.val ELSE 0
        applies == FateGate(fateCtx, origin, v) /\ ~IsExcluded(origin)
    IN  /\ containers' =
               [last |-> Assignment(c, origin, v,
                                    IF applies THEN v + fateCtx.fateBonus
                                    ELSE v),
                fateDiceCount |->
                    IF applies
                    THEN [containers.fateDiceCount EXCEPT
                             ![c] = fateCtx.fateBonus]
                    ELSE containers.fateDiceCount]
        /\ fateCtx' = CtxAfterAssign(fateCtx, origin, v)
        /\ lastFate' = IF applies
                       THEN [lastContainer |-> ContainerRef(c),
                             lastContainerAtMs |-> now]
                       ELSE lastFate

IdleCall ==
    [pc |-> "idle", path |-> "none", origin |-> "", inTry |-> FALSE,
     upstream |-> 0, meaningful |-> FALSE,
     gotBonus |-> FALSE, messaged |-> FALSE, outcome |-> "none"]

\* The branch the patched method takes before it calls the upstream
\* method: an exception in the preparation, Fate disabled, a weapon dialog
\* in damage mode, Use Fate checked with permanent Fate, or neither.
PathOf(prepThrows, weaponDamage, useFate, fatePermanent) ==
    IF prepThrows THEN "threw"
    ELSE IF fateEnabled # TRUE THEN "disabled"
    ELSE IF weaponDamage THEN "damage"
    ELSE IF useFate /\ fatePermanent > 0 THEN "set"
    ELSE "clear"

\* The branches that call the upstream method inside the try block.
CalledInTry(path) == path \in {"disabled", "damage"}

\* The patched roll method of dialog d up to its await: the context is
\* set or cleared and the upstream method is invoked.
patchedFateRollMethod(d, prepThrows, weaponDamage, useFate, fatePermanent, origin) ==
    LET path == PathOf(prepThrows, weaponDamage, useFate, fatePermanent)
    IN  /\ fateCtx' = IF path = "set"
                      THEN setNextFateContext(fateCtx, fatePermanent)
                      ELSE clearFateContext(fateCtx)
        /\ calls' = [calls EXCEPT ![d] =
                        [IdleCall EXCEPT !.pc = "upstream",
                                         !.path = path,
                                         !.origin = IF weaponDamage
                                                    THEN "damage"
                                                    ELSE origin,
                                         !.inTry = CalledInTry(path),
                                         !.upstream = 1]]
        /\ containers' = [containers EXCEPT !.fateDiceCount[d] = 0]

\* An exception of the upstream method called after the try/catch leaves
\* the patched method before its cleanup.
CtxAfterUpstreamThrew(ctx) == ctx

\* The catch block has caught the exception of the upstream method called
\* inside the try block; the method goes on to the call after the
\* try/catch and invokes the upstream method again.
RetryAfterCatch(call) ==
    [call EXCEPT !.inTry = FALSE, !.upstream = @ + 1, !.messaged = FALSE]

\* The upstream method of dialog d settles; threw tells how.
UpstreamSettled(d, threw) ==
    LET call == calls[d]
    IN  IF ~threw
        THEN /\ calls' = [calls EXCEPT ![d] =
                             [call EXCEPT !.pc = "done",
                                          !.outcome = "returned"]]
             /\ fateCtx' = IF call.inTry THEN fateCtx
                           ELSE clearFateContext(fateCtx)
        ELSE IF call.inTry
        THEN /\ calls' = [calls EXCEPT ![d] = RetryAfterCatch(call)]
             /\ fateCtx' = clearFateContext(fateCtx)
        ELSE /\ calls' = [calls EXCEPT ![d] =
                             [call EXCEPT !.pc = "done",
                                          !.outcome = "threw"]]
             /\ fateCtx' = CtxAfterUpstreamThrew(fateCtx)

\* The container the tagging hook gets for a roll message: it returns
\* before consumeLastFateRollContainer() when Fate is off.
TaggingContainer(ctx) ==
    consumeLastFateRollContainer(ctx, FateMaxAgeMs)

\* A created roll message: the roll that created it (Outside for a roll
\* that is not a dialog's) and the container its dice types were computed
\* from (Null when it was not tagged).
RollMessageOf(by, c) == [by |-> by, from |-> c]

\* preCreateChatMessage of a roll message created by roll `by`.
TagRollMessage(by) ==
    IF fateEnabled # TRUE
    THEN /\ created' = <<RollMessageOf(by, Null)>>
         /\ UNCHANGED lastFate
    ELSE /\ created' = <<RollMessageOf(by, TaggingContainer(lastFate))>>
         /\ lastFate' = NoLastFate

FateInit ==
    /\ StoreInit /\ ChatIdle /\ CacheIdle
    /\ wodCfg = Null
    /\ tenIn = Null /\ tenOut = Null
    /\ evIn = Null /\ evOut = Null
    /\ container = Null /\ rolls = <<>> /\ diceTypes = Null
    /\ doc = Null /\ stage = "idle" /\ tagged = Null
    /\ extracted = Null /\ renders = Null
    /\ TailIdle
    /\ dlg = Null /\ recomputed = <<>> /\ keyIn = Null
    /\ fateEnabled \in BOOLEAN
    /\ lastFate = NoLastFate
    /\ fateCtx = FateCtx(FALSE, 0, FALSE, 0)
    /\ calls = [d \in Dialogs |-> IdleCall]
    /\ containers = NoAssignments
    /\ created = <<>>

\* A roll dialog is confirmed: its patched roll method starts.  The
\* dialogs are alike; the one called first is dialog 1.
FateRollStart ==
    /\ \E d \in Dialogs :
          /\ calls[d].pc = "idle"
          /\ \A e \in Dialogs : e < d => calls[e].pc # "idle"
          /\ \E prepThrows \in BOOLEAN, weaponDamage \in BOOLEAN,
                useFate \in BOOLEAN, fatePermanent \in FatePermanentChoices,
                origin \in {"general", "damage"} :
                 patchedFateRollMethod(d, prepThrows, weaponDamage, useFate,
                                       fatePermanent, origin)
    /\ UNCHANGED <<storeVars, wodCfg, tailVars, tenVars, outcomeVars, diceVars,
                   chatVars, cacheVars, fateEnabled, lastFate, doc, stage,
                   tagged, extracted, renders, dlg, recomputed, keyIn,
                   created>>

\* The upstream roll of a dialog assigns to numDices of its container:
\* the constructor's assignment (origin "") or the dialog's.
UpstreamAssign ==
    /\ \E d \in Dialogs :
          /\ calls[d].pc = "upstream"
          /\ \E origin \in {"", calls[d].origin}, value \in AssignedValues :
                /\ numDicesSet(d, origin, value)
                /\ calls' =
                       [calls EXCEPT
                           ![d].meaningful =
                               @ \/ (value.val > 0 /\ origin # ""
                                       /\ ~IsExcluded(origin)),
                           ![d].gotBonus =
                               @ \/ containers'.last.numDices > value.val]
    /\ UNCHANGED <<storeVars, wodCfg, tailVars, tenVars, outcomeVars, diceVars,
                   chatVars, cacheVars, fateEnabled, doc, stage, tagged,
                   extracted, renders, dlg, recomputed, keyIn, created>>

\* A numDices assignment while no patched roll method is running.
OutsideAssign ==
    /\ \A d \in Dialogs : calls[d].pc # "upstream"
    /\ \E origin \in {"", "general", "initiative"},
          value \in AssignedValues :
           numDicesSet(Outside, origin, value)
    /\ UNCHANGED <<storeVars, wodCfg, tailVars, tenVars, outcomeVars, diceVars,
                   chatVars, cacheVars, fateEnabled, doc, stage, tagged,
                   extracted, renders, dlg, recomputed, keyIn, calls,
                   created>>

\* The upstream roll of a dialog creates its chat message.
UpstreamCreatesMessage ==
    /\ \E d \in Dialogs :
          /\ calls[d].pc = "upstream"
          /\ ~calls[d].messaged
          /\ TagRollMessage(d)
          /\ calls' = [calls EXCEPT ![d].messaged = TRUE]
    /\ UNCHANGED <<storeVars, wodCfg, tailVars, tenVars, outcomeVars, diceVars,
                   chatVars, cacheVars, fateEnabled, doc, stage, tagged,
                   extracted, renders, dlg, recomputed, keyIn, fateCtx,
                   containers>>

\* The upstream roll method of a dialog returns or throws.
UpstreamSettles ==
    /\ \E d \in Dialogs :
          /\ calls[d].pc = "upstream"
          /\ \E threw \in BOOLEAN : UpstreamSettled(d, threw)
    /\ UNCHANGED <<storeVars, wodCfg, tailVars, tenVars, outcomeVars, diceVars,
                   chatVars, cacheVars, fateEnabled, lastFate, doc, stage,
                   tagged, extracted, renders, dlg, recomputed, keyIn,
                   containers, created>>

\* Time passes while a container is remembered: only its age depends on
\* the clock.
FateClockTick ==
    /\ lastFate.lastContainer # Null
    /\ \E d \in MetaTickSteps : Tick(d)
    /\ UNCHANGED <<wodCfg, tailVars, tenVars, outcomeVars, diceVars, laterVars>>

FateNext ==
    \/ FateRollStart
    \/ UpstreamAssign
    \/ OutsideAssign
    \/ UpstreamCreatesMessage
    \/ UpstreamSettles
    \/ FateClockTick

SpecFate == FateInit /\ [][FateNext]_vars

(***************************************************************************)
(* Claims about the Fate context, checked under SpecFate.                  *)
(***************************************************************************)
\* C24: a call of the Fate-patched roll method has invoked the upstream
\* roll method exactly once, whatever branch it took and also when the
\* upstream method threw.
C24_UpstreamInvokedOnce ==
    \A d \in Dialogs : calls[d].pc # "idle" => calls[d].upstream = 1

\* C25: once a Fate-patched roll method has finished and none is running,
\* whether its upstream roll returned or threw, the Fate context is
\* cleared (enabled = false, fateBonus = 0), and a numDices assignment
\* made outside a patched roll stores the plain value.
C25_NoContextLeak ==
    /\ ((\A d \in Dialogs : calls[d].pc # "upstream")
          /\ (\E d \in Dialogs : calls[d].pc = "done"))
         => (fateCtx.enabled = FALSE /\ fateCtx.fateBonus = 0)
    /\ (containers.last # Null /\ containers.last.c = Outside)
         => containers.last.numDices = containers.last.value

\* A step that is a numDices assignment, told by the assignment it leaves.
AssignStep == containers'.last # containers.last

\* C26: since the last setNextFateContext at most one assignment stored
\* value + fateBonus (state part); and every assignment stores the value
\* or the value plus the bonus, an assignment of a value <= 0 or on a
\* container with empty origin stores the value and leaves the context
\* unconsumed if it was, and an assignment made when the context is
\* already consumed stores the value.
C26_FateAppliedOnce ==
    [][/\ fateCtx'.applied <= 1
       /\ AssignStep =>
             LET a == containers'.last
             IN  /\ a.numDices \in {a.value, a.value + fateCtx.fateBonus}
                 /\ (a.value <= 0 \/ a.origin = "")
                        => /\ a.numDices = a.value
                           /\ fateCtx'.consumed = fateCtx.consumed
                 /\ fateCtx.consumed = TRUE => a.numDices = a.value]_vars

\* C26 witness: the context set by a dialog gave its bonus to one
\* assignment, and a later assignment of a dice pool on a container with
\* origin "general" stored the plain value while the context was still set.
C26_Witness ==
    /\ fateCtx.enabled = TRUE
    /\ fateCtx.consumed = TRUE
    /\ fateCtx.applied = 1
    /\ containers.last # Null
    /\ containers.last.origin = "general"
    /\ containers.last.value > 0
    /\ containers.last.numDices = containers.last.value

\* C27: an assignment on a container whose origin is "damage" or
\* "initiative" stores the plain value, leaves every container's
\* __rusbarFateDiceCount as it was and does not change the remembered last
\* Fate container.
C27_ExcludedOrigins ==
    [][(AssignStep /\ containers'.last.origin \in {"damage", "initiative"})
          => /\ containers'.last.numDices = containers'.last.value
             /\ containers'.fateDiceCount = containers.fateDiceCount
             /\ lastFate' = lastFate]_vars

\* C27 witness: a dice pool was assigned on a container with origin
\* "damage" while the context was set and unconsumed; no bonus was given.
C27_Witness ==
    /\ containers.last # Null
    /\ containers.last.origin = "damage"
    /\ containers.last.value > 0
    /\ containers.last.numDices = containers.last.value
    /\ fateCtx.enabled = TRUE
    /\ fateCtx.fateBonus > 0
    /\ fateCtx.consumed = TRUE
    /\ fateCtx.applied = 0

\* A step in which a roll message is created by a dialog's roll.
MessageStep ==
    \E d \in Dialogs : calls'[d].messaged /\ ~calls[d].messaged

\* C28: when the tagging hook consumes the last Fate container, it gets
\* the container only if Fate was applied to it at most 3000 ms ago and
\* null otherwise, and the reference is cleared in either case; a
\* container is remembered again only by a step that applies Fate.
C28_OneShotFreshContainer ==
    [][/\ (MessageStep /\ fateEnabled = TRUE)
             => LET fresh == /\ lastFate.lastContainer # Null
                             /\ now - lastFate.lastContainerAtMs
                                    <= FateMaxAgeMs
                IN  /\ fresh => created'[1].from = lastFate.lastContainer
                    /\ ~fresh => created'[1].from = Null
                    /\ lastFate' = NoLastFate
       /\ (lastFate' # lastFate /\ lastFate'.lastContainer # Null)
             => fateCtx'.applied = fateCtx.applied + 1]_vars

\* C28 witness: Fate was applied to the container of dialog 1, 1000 ms
\* later the roll's message was created and got that container, and the
\* reference is cleared.
C28_Witness ==
    /\ created # <<>>
    /\ created[1].by = 1
    /\ created[1].from = ContainerRef(1)
    /\ now = 1000
    /\ lastFate = NoLastFate

\* C29: a roll message gets the classification of a Fate container only
\* if it is the message of the roll that container belongs to.
C29_NoCrossMessageTagging ==
    (created # <<>> /\ created[1].from # Null)
        => created[1].from = ContainerRef(created[1].by)

\* C30: a dialog call that set the Fate context and has made a meaningful
\* assignment (a dice pool, on a container with an origin that is not
\* excluded) received the bonus, whatever other patched roll methods
\* started or finished meanwhile; and a call that did not set the context
\* received none.
C30_OverlappingRollsKeepIntent ==
    \A d \in Dialogs :
        calls[d].pc # "idle" =>
            /\ (calls[d].path = "set" /\ calls[d].meaningful)
                   => calls[d].gotBonus
            /\ calls[d].path # "set" => ~calls[d].gotBonus

(***************************************************************************)
(* The Fate resource of an actor: clicks on the permanent dots and the     *)
(* temporary squares of the sheet (bindFateClicks).  A handler reads the   *)
(* actor's values, builds its update and awaits actor.update; the actor's  *)
(* data change when the update is applied, which is a later step.          *)
(***************************************************************************)
\* FATE_RULES.ROLL_SOURCE
ROLL_SOURCE == "permanent"

\* The values of current.max that the sheets of the model have.
FateMaxChoices == {2, 3}

\* The rows of steps the claim is about.
FateRows == {"permanent", "temporary"}

\* How many actor.update calls may be awaited at once.
MaxInFlight == 2

clamp(value, min, max) == Min(Max(value, min), max)

computeRoll(permanent, temporary) ==
    IF ROLL_SOURCE = "temporary" THEN temporary ELSE permanent

FateData(max, permanent, temporary, roll) ==
    [max |-> max, permanent |-> permanent, temporary |-> temporary,
     roll |-> roll]

\* The update object a click on a step of the permanent row builds.
PermanentUpdate(current, rawValue) ==
    LET nextPerm == clamp(IF rawValue = current.permanent
                          THEN rawValue - 1 ELSE rawValue, 0, current.max)
        nextTemp == clamp(current.temporary, 0, nextPerm)
        roll == clamp(computeRoll(nextPerm, nextTemp), 0, current.max)
    IN  IF nextTemp # current.temporary
        THEN [k \in {"permanent", "temporary", "roll"} |->
                 CASE k = "permanent" -> nextPerm
                   [] k = "temporary" -> nextTemp
                   [] OTHER -> roll]
        ELSE [k \in {"permanent", "roll"} |->
                 IF k = "permanent" THEN nextPerm ELSE roll]

\* The update object a click on a step of the temporary row builds.
TemporaryUpdate(current, rawValue) ==
    LET nextTemp == clamp(IF rawValue = current.temporary
                          THEN rawValue - 1 ELSE rawValue,
                          0, current.permanent)
        roll == clamp(computeRoll(current.permanent, nextTemp), 0,
                      current.max)
    IN  [k \in {"temporary", "roll"} |->
            IF k = "temporary" THEN nextTemp ELSE roll]

\* The update object of the click handler for a step of a row.
UpdateOfClick(current, row, index) ==
    IF row = "permanent"
    THEN PermanentUpdate(current, index + 1)
    ELSE TemporaryUpdate(current, index + 1)

\* actor.update(update) applied to the actor's data.
ApplyUpdate(current, update) ==
    [k \in DOMAIN current |->
        IF k \in DOMAIN update THEN update[k] ELSE current[k]]

ClicksInit ==
    /\ StoreInit /\ ChatIdle /\ CacheIdle /\ MetaIdle /\ FlowIdle
    /\ wodCfg = Null
    /\ tenIn = Null /\ tenOut = Null
    /\ evIn = Null /\ evOut = Null
    /\ container = Null /\ rolls = <<>> /\ diceTypes = Null
    /\ \E max \in FateMaxChoices :
          \E permanent \in 0..max :
             \E temporary \in 0..permanent :
                actorFate = FateData(max, permanent, temporary,
                                     computeRoll(permanent, temporary))
    /\ updates = <<>>
    /\ autoCall = Null /\ protos = Null /\ rollLog = Null
    /\ inlineOut = Null

\* A click on a step: the handler runs up to its await of actor.update.
FateStepClick ==
    /\ Len(updates) < MaxInFlight
    /\ \E row \in FateRows, index \in 0..(actorFate.max - 1) :
          updates' = Append(updates, UpdateOfClick(actorFate, row, index))
    /\ UNCHANGED <<storeVars, wodCfg, tenVars, outcomeVars, diceVars,
                   laterVars, actorFate, autoCall, protos, rollLog,
                   inlineOut>>

\* The oldest awaited actor.update is applied to the actor.
FateUpdateApplied ==
    /\ updates # <<>>
    /\ actorFate' = ApplyUpdate(actorFate, Head(updates))
    /\ updates' = Tail(updates)
    /\ UNCHANGED <<storeVars, wodCfg, tenVars, outcomeVars, diceVars,
                   laterVars, autoCall, protos, rollLog,
                   inlineOut>>

ClicksNext ==
    \/ FateStepClick
    \/ FateUpdateApplied

SpecClicks == ClicksInit /\ [][ClicksNext]_vars

\* C31: the actor always satisfies 0 <= permanent <= max,
\* 0 <= temporary <= permanent and roll = computeRoll(permanent, temporary),
\* after any sequence of clicks on permanent dots and temporary squares,
\* also when the handlers of quick successive clicks overlap.
C31_FateResourceInvariant ==
    /\ 0 <= actorFate.permanent
    /\ actorFate.permanent <= actorFate.max
    /\ 0 <= actorFate.temporary
    /\ actorFate.temporary <= actorFate.permanent
    /\ actorFate.roll = computeRoll(actorFate.permanent, actorFate.temporary)

(***************************************************************************)
(* Auto-successes of the pending roll context (setPendingAutoSuccesses).   *)
(* The contexts of this part carry the fields the guard reads: actorId,    *)
(* attribute and autoSuccesses.  An absent or null id is NullId.           *)
(***************************************************************************)
\* The actorId and attribute of the params of a call and, a subset, of the
\* pending contexts.
AutoActorIds == {"a1", "a2", NullId}
AutoAttributes == {"strength", "wits", NullId}
CtxActorIds == {"a1", NullId}
CtxAttributes == {"strength", NullId}

\* params.autoSuccesses: absent, not a number, and integers.
RawAutoSuccesses == {Null, NaN, Num(-1), Num(3)}

\* The clock advance between two calls: past the age a consume accepts.
AutoTickSteps == {DefaultMaxAgeMs + 1}

\* The autoSuccesses of a context just written by setPendingRollContext:
\* absent ({ ...ctx, createdAtMs } of store.js) or 0 (part_002).
FreshAutoSuccesses == {Null, Num(0)}

\* The pending context written by setPendingRollContext for a roll.
AutoCtx(actorId, attribute, difficulty, autoSuccesses, createdAtMs) ==
    [kind |-> "ctx", actorId |-> actorId, attribute |-> attribute,
     difficulty |-> difficulty, autoSuccesses |-> autoSuccesses,
     createdAtMs |-> createdAtMs]

\* A value is truthy: a non-empty string.
Carries(id) == id # NullId /\ id # ""

\* The two guards against an unrelated auto-buff.
AutoMismatch(params, ctx) ==
    \/ Carries(params.actorId) /\ Carries(ctx.actorId)
          /\ params.actorId # ctx.actorId
    \/ Carries(params.attribute) /\ Carries(ctx.attribute)
          /\ params.attribute # ctx.attribute

\* Mutant: the parsed value is stored as it is.
ParsedAutoSuccesses_Unclamped(raw) ==
    IF raw = Null \/ ~raw.fin THEN Num(0) ELSE raw

\* const v = Number.parseInt(params?.autoSuccesses ?? 0, 10);
\* Number.isFinite(v) && v > 0 ? v : 0
ParsedAutoSuccesses(raw) ==
    IF raw = Null THEN Num(0)
    ELSE IF raw.fin /\ raw.val > 0 THEN raw ELSE Num(0)

\* What the call of one store function is remembered by: the function,
\* its user and its arguments.
AutoCall(op, userId, params) ==
    [kind |-> "call", op |-> op, userId |-> userId, params |-> params]

setPendingAutoSuccesses(userId, params) ==
    LET ctx == pendingByUserId[userId]
    IN  /\ pendingByUserId' =
               IF ctx = Null \/ AutoMismatch(params, ctx)
               THEN pendingByUserId
               ELSE [pendingByUserId EXCEPT ![userId].autoSuccesses =
                        ParsedAutoSuccesses(params.autoSuccesses)]
        /\ autoCall' = AutoCall("auto", userId, params)

AutoInit ==
    /\ StoreInit /\ ChatIdle /\ CacheIdle /\ MetaIdle /\ FlowIdle
    /\ wodCfg = Null
    /\ tenIn = Null /\ tenOut = Null
    /\ evIn = Null /\ evOut = Null
    /\ container = Null /\ rolls = <<>> /\ diceTypes = Null
    /\ actorFate = Null /\ updates = <<>>
    /\ autoCall = Null /\ protos = Null /\ rollLog = Null
    /\ inlineOut = Null

\* A dialog's roll writes the pending context of its user.
AutoSetPending ==
    /\ \E u \in Users, a \in CtxActorIds, t \in CtxAttributes,
          f \in FreshAutoSuccesses :
          /\ pendingByUserId' =
                 StoreAfterSet(pendingByUserId, u, AutoCtx(a, t, 6, f, now))
          /\ autoCall' = AutoCall("set", u, Null)
    /\ UNCHANGED <<now, ticks, hist, wodCfg, tenVars, outcomeVars, diceVars,
                   laterVars, actorFate, updates, protos, rollLog,
                   inlineOut>>

\* The BonusHelper wrapper, or any caller, reports auto-successes.
AutoCapture ==
    /\ \E u \in Users, a \in AutoActorIds, t \in AutoAttributes,
          raw \in RawAutoSuccesses :
          setPendingAutoSuccesses(
              u, [actorId |-> a, attribute |-> t, autoSuccesses |-> raw])
    /\ UNCHANGED <<now, ticks, hist, wodCfg, tenVars, outcomeVars, diceVars,
                   laterVars, actorFate, updates, protos, rollLog,
                   inlineOut>>

\* The chat hook consumes the pending context of a user.
AutoConsume ==
    /\ \E u \in Users :
          /\ pendingByUserId[u] # Null
          /\ pendingByUserId' = StoreAfterConsume(pendingByUserId, u)
          /\ autoCall' = AutoCall("consume", u, Null)
    /\ UNCHANGED <<now, ticks, hist, wodCfg, tenVars, outcomeVars, diceVars,
                   laterVars, actorFate, updates, protos, rollLog,
                   inlineOut>>

AutoClockTick ==
    /\ \E d \in AutoTickSteps : Tick(d)
    /\ UNCHANGED <<wodCfg, tenVars, outcomeVars, diceVars, laterVars,
                   tailVars>>

AutoNext ==
    \/ AutoSetPending
    \/ AutoCapture
    \/ AutoConsume
    \/ AutoClockTick

SpecAuto == AutoInit /\ [][AutoNext]_vars

\* A step of SpecAuto that is a call of the store function op (the clock
\* does not move during a call).
AutoStep(op) == now' = now /\ autoCall' # Null /\ autoCall'.op = op

\* C33: a setPendingAutoSuccesses call leaves the store as it was, except
\* that the caller's context, if there is one and neither the actorIds nor
\* the attributes of both sides differ, has autoSuccesses set to the
\* parsed value when that is a positive integer and to 0 when not; no
\* entry is created, no other field and no other user's entry changes.
\* And the context written by a setPendingRollContext carries no
\* auto-successes of the context it replaces.
C33_AutoSuccessesAmendOnly ==
    [][/\ AutoStep("auto") =>
             LET u == autoCall'.userId
                 p == autoCall'.params
                 before == pendingByUserId
                 after == pendingByUserId'
                 raw == p.autoSuccesses
                 differ ==
                     \/ /\ p.actorId \notin {NullId, ""}
                        /\ before[u].actorId \notin {NullId, ""}
                        /\ p.actorId # before[u].actorId
                     \/ /\ p.attribute \notin {NullId, ""}
                        /\ before[u].attribute \notin {NullId, ""}
                        /\ p.attribute # before[u].attribute
                 positive == raw # Null /\ raw.fin /\ raw.val > 0
             IN  /\ \A w \in Users \ {u} : after[w] = before[w]
                 /\ before[u] = Null => after[u] = Null
                 /\ (before[u] # Null /\ differ) => after[u] = before[u]
                 /\ (before[u] # Null /\ ~differ)
                        => /\ after[u] =
                                 [before[u] EXCEPT !.autoSuccesses =
                                     after[u].autoSuccesses]
                           /\ positive => after[u].autoSuccesses = raw
                           /\ ~positive => after[u].autoSuccesses = Num(0)
       /\ AutoStep("set") =>
             pendingByUserId'[autoCall'.userId].autoSuccesses
                 \in FreshAutoSuccesses]_vars

\* C33 witness: user u1's pending context of actor a1 holds 3
\* auto-successes recorded by the last call, made for the same actor with
\* no attribute, while user u2 has a pending context of their own without
\* any.
C33_Witness ==
    /\ autoCall # Null /\ autoCall.op = "auto"
    /\ autoCall.userId = "u1"
    /\ autoCall.params.actorId = "a1"
    /\ autoCall.params.attribute = NullId
    /\ autoCall.params.autoSuccesses = Num(3)
    /\ pendingByUserId["u1"] # Null
    /\ pendingByUserId["u1"].actorId = "a1"
    /\ pendingByUserId["u1"].attribute = "strength"
    /\ pendingByUserId["u1"].autoSuccesses = Num(3)
    /\ pendingByUserId["u2"] # Null
    /\ pendingByUserId["u2"].autoSuccesses = Null

(***************************************************************************)
(* The math of the earlier chat hooks, which computeEvilBotchesResult was  *)
(* extracted from: the inline loop and the computeOutcome call of          *)
(* registerEvilBotchesChatHook in its two earlier versions.                *)
(***************************************************************************)
\* The earlier versions of the hook: the one that imports computeOutcome
\* from outcome/compute-outcome.js and the older one with its own.
HookVersions == {"modules", "single-file"}

\* Mutant: a 10 counts as a plain success of the difficulty test.
InlineCountDie_TenAsPlain(acc, value, difficulty, isSpecialized) ==
    IF value = 1
    THEN [acc EXCEPT !.ones = @ + 1]
    ELSE IF value >= difficulty
    THEN [acc EXCEPT !.diceSuccesses = @ + 1]
    ELSE acc

\* One iteration of the inline loop: getTenSuccessValue is called for
\* every 10.
InlineCountDie(acc, value, difficulty, isSpecialized) ==
    IF value = 1
    THEN [acc EXCEPT !.ones = @ + 1]
    ELSE IF value = 10
    THEN [acc EXCEPT !.diceSuccesses = @ + getTenSuccessValue(isSpecialized)]
    ELSE IF value >= difficulty
    THEN [acc EXCEPT !.diceSuccesses = @ + 1]
    ELSE acc

RECURSIVE InlineCountDice(_, _, _, _, _)
\* for (const value of allDieValues) ..., from index i on.
InlineCountDice(acc, dieValues, i, difficulty, isSpecialized) ==
    IF i > Len(dieValues) THEN acc
    ELSE InlineCountDice(
             InlineCountDie(acc, dieValues[i], difficulty, isSpecialized),
             dieValues, i + 1, difficulty, isSpecialized)

\* computeOutcome of the single-file hook: isWillpowerUsed changes nothing
\* and the result has a kind and a value only.
singleFileComputeOutcome(successesBeforeOnes, ones, isWillpowerUsed) ==
    LET s == FiniteOrZero(successesBeforeOnes)
        o == FiniteOrZero(ones)
        net == s - o
    IN  IF net > 0 THEN [kind |-> "success", value |-> net]
        ELSE IF o > s THEN [kind |-> "botch", value |-> o - s]
        ELSE [kind |-> "failure", value |-> 0]

\* The inline math of a version of the hook for the arguments in.
InlineResult(version, in) ==
    LET counted == InlineCountDice([ones |-> 0, diceSuccesses |-> 0],
                                   in.dieValues, 1, in.difficulty,
                                   in.isSpecialized)
        successesBeforeOnes ==
            counted.diceSuccesses + FiniteOrZero(in.autoSuccesses)
    IN  [kind |-> "inline",
         version |-> version,
         ones |-> counted.ones,
         diceSuccesses |-> counted.diceSuccesses,
         successesBeforeOnes |-> successesBeforeOnes,
         outcome |->
             IF version = "modules"
             THEN computeOutcome(Num(successesBeforeOnes), Num(counted.ones),
                                 in.isWillpowerUsed)
             ELSE singleFileComputeOutcome(Num(successesBeforeOnes),
                                           Num(counted.ones),
                                           in.isWillpowerUsed)]

\* A version of the earlier hook renders the message of the arguments.
InlineHookComputes ==
    /\ inlineOut = Null
    /\ \E version \in HookVersions :
          inlineOut' = InlineResult(version, evIn)
    /\ UNCHANGED <<storeVars, wodCfg, tenVars, outcomeVars, diceVars,
                   laterVars, actorFate, updates, autoCall, protos, rollLog>>

ExtractNext ==
    \/ CallComputeEvilBotchesResult
    \/ InlineHookComputes

SpecExtract == OutcomeInit /\ [][ExtractNext]_vars

\* The counts of the helper and of the inline loop are the same.
SameCounts ==
    /\ evOut.ones = inlineOut.ones
    /\ evOut.diceSuccesses = inlineOut.diceSuccesses
    /\ evOut.successesBeforeOnes = inlineOut.successesBeforeOnes

Registrars == {"rollctx", "fate", "dice", "bonus"}

\* The two marker schemes of the roll-context patch: one marker per class
\* and method (patchRollMethod), one per method name (patchDialog).
MarkerSchemes == {"per-class", "per-method"}

\* One patchDialog call of a registrar.
PatchTarget(className, rollMethodName) ==
    [className |-> className, rollMethodName |-> rollMethodName]

\* The patchDialog calls of the two dialog registrars, in their order.
DialogPatchList ==
    << PatchTarget("DialogGeneralRoll", "_generalRoll"),
       PatchTarget("DialogSoakRoll", "_soakRoll"),
       PatchTarget("DialogWeapon", "_rollAttack"),
       PatchTarget("DialogPower", "_rollPower"),
       PatchTarget("DialogItem", "_rollPower"),
       PatchTarget("DialogRoll", "_rollPower"),
       PatchTarget("DialogAreteCasting", "_castSpell"),
       PatchTarget("DialogCheckFrenzy", "_checkFrenzy") >>

\* What a registrar patches, in the order of its awaits.
TargetsOf(reg) ==
    IF reg \in {"rollctx", "fate"} THEN DialogPatchList
    ELSE IF reg = "dice"
    THEN << PatchTarget("DiceRollContainer", "numDices") >>
    ELSE << PatchTarget("BonusHelper", "GetAttributeAutoBuff") >>

\* The marker property a registrar tests and sets on the patched object.
PatchMarker(reg, scheme, target) ==
    IF reg = "rollctx"
    THEN IF scheme = "per-class"
         THEN "__rusbarHrPatched_rollctx_" \o target.className \o "_"
                 \o target.rollMethodName \o "__"
         ELSE "__wodV20RbRollContextPatched__" \o target.rollMethodName
    ELSE IF reg = "fate"
    THEN "__rusbarFatePatched_roll_" \o target.className \o "_"
            \o target.rollMethodName \o "__"
    ELSE IF reg = "dice" THEN "__rusbarFateNumDicesPatched__"
    ELSE "__rusbarHrPatched_GetAttributeAutoBuff__"

\* What the import of an upstream module can give: the class with its
\* method, the class without the method, or no such class.
UpstreamShapes == {"ok", "noMethod", "noClass"}

\* The upstream objects a registrar may meet: all as expected, or one of
\* them without its method or missing.
UpstreamWorlds(reg) ==
    LET n == Len(TargetsOf(reg))
    IN  { [i \in 1..n |-> "ok"] } \cup
        { [i \in 1..n |-> IF i = odd THEN shape ELSE "ok"] :
            odd \in 1..n, shape \in UpstreamShapes \ {"ok"} }

\* An upstream object before any patch: no wrapper, no marker.
UpstreamObject(shape) == [shape |-> shape, depth |-> 0, markers |-> {}]

\* numDices is defined with Object.defineProperty whether or not the
\* prototype had it; the other patches wrap a method that must exist.
NeedsMethod(reg) == reg # "dice"

\* Mutant: the patch is applied without the marker test.
PatchOne_Unguarded(reg, scheme, obj, target) ==
    IF obj.shape = "noClass" THEN obj
    ELSE IF NeedsMethod(reg) /\ obj.shape = "noMethod" THEN obj
    ELSE [obj EXCEPT !.depth = @ + 1,
                     !.markers = @ \cup {PatchMarker(reg, scheme, target)}]

\* The part of a registrar after `await import(...)` for one target: no
\* class, marker already set or no method leave the object as it is;
\* otherwise the method is replaced by a wrapper of the present one and the
\* marker is set.
PatchOne(reg, scheme, obj, target) ==
    IF obj.shape = "noClass" THEN obj
    ELSE IF PatchMarker(reg, scheme, target) \in obj.markers THEN obj
    ELSE IF NeedsMethod(reg) /\ obj.shape = "noMethod" THEN obj
    ELSE [obj EXCEPT !.depth = @ + 1,
                     !.markers = @ \cup {PatchMarker(reg, scheme, target)}]

\* How often one use of a patched object runs the capture of the patch:
\* every wrapper runs it once and passes on to the method it wrapped; the
\* numDices accessor is replaced, not wrapped.
CapturesOfUse(reg, depth) ==
    IF reg = "dice" THEN Min(depth, 1) ELSE depth

\* How often one use reaches the upstream method: the innermost wrapper
\* calls it once; the numDices accessor has no upstream to call.
UpstreamOfUse(reg) == IF reg = "dice" THEN 0 ELSE 1

\* Whether the capture of a use writes (a user id is there) or is skipped.
UseCaptures == {"stored", "skipped"}

\* The registrar calls that may be under way at once.
MaxRegistrations == 2

PatchInit ==
    /\ StoreInit /\ ChatIdle /\ CacheIdle /\ MetaIdle /\ FlowIdle
    /\ wodCfg = Null
    /\ tenIn = Null /\ tenOut = Null
    /\ evIn = Null /\ evOut = Null
    /\ container = Null /\ rolls = <<>> /\ diceTypes = Null
    /\ actorFate = Null /\ updates = <<>> /\ autoCall = Null
    /\ inlineOut = Null
    /\ rollLog = Null
    /\ \E reg \in Registrars, scheme \in MarkerSchemes :
          \E world \in UpstreamWorlds(reg) :
             /\ reg # "rollctx" => scheme = "per-class"
             /\ protos = [reg |-> reg,
                          scheme |-> scheme,
                          objs |-> [i \in 1..Len(TargetsOf(reg)) |->
                                      UpstreamObject(world[i])],
                          runs |-> <<>>]

\* A registrar is called: it runs up to its first `await import(...)`.
PatchRegister ==
    /\ Len(protos.runs) < MaxRegistrations
    /\ protos' = [protos EXCEPT !.runs = Append(@, 1)]
    /\ UNCHANGED <<storeVars, wodCfg, tenVars, outcomeVars, diceVars,
                   laterVars, actorFate, updates, autoCall, rollLog,
                   inlineOut>>

\* An awaited import of one registrar call resolves: the call patches its
\* target and runs up to its next await.
PatchStep ==
    /\ \E r \in 1..Len(protos.runs) :
          LET i == protos.runs[r]
              targets == TargetsOf(protos.reg)
          IN  /\ i <= Len(targets)
              /\ protos' = [protos EXCEPT
                    !.objs[i] = PatchOne(protos.reg, protos.scheme, @,
                                         targets[i]),
                    !.runs[r] = i + 1]
    /\ UNCHANGED <<storeVars, wodCfg, tenVars, outcomeVars, diceVars,
                   laterVars, actorFate, updates, autoCall, rollLog,
                   inlineOut>>

\* Target i was passed by some registrar call.
PatchPassed(i) == \E r \in 1..Len(protos.runs) : protos.runs[r] > i

\* One use of an upstream object that can be used and that a registrar
\* call has passed: a roll of a dialog, an assignment to numDices, a call
\* of GetAttributeAutoBuff.  One use is followed per behaviour.
PatchRoll ==
    /\ rollLog = Null
    /\ \E i \in 1..Len(TargetsOf(protos.reg)), capture \in UseCaptures :
          LET obj == protos.objs[i]
          IN  /\ obj.shape = "ok"
              /\ PatchPassed(i)
              /\ rollLog' =
                    [className |-> TargetsOf(protos.reg)[i].className,
                     capture |-> capture,
                     captures |-> IF capture = "stored"
                                  THEN CapturesOfUse(protos.reg, obj.depth)
                                  ELSE 0,
                     upstream |-> UpstreamOfUse(protos.reg)]
    /\ UNCHANGED <<storeVars, wodCfg, tenVars, outcomeVars, diceVars,
                   laterVars, actorFate, updates, autoCall, protos,
                   inlineOut>>

PatchNext ==
    \/ PatchRegister
    \/ PatchStep
    \/ PatchRoll

SpecPatch == PatchInit /\ [][PatchNext]_vars

====
